---- MODULE Spec2Model ----
(***************************************************************************)
(* A model of the ESPHome native-API client (package esphome) and of its   *)
(* frame codec (package api): the wire format, the receive loop, the       *)
(* single-slot waiter table, the inbound queue and the Login handshake.    *)
(***************************************************************************)
EXTENDS Integers, Sequences, FiniteSets, TLC

(***************************************************************************)
(* Message kinds.  The numeric values of the api.*Type names are declared  *)
(* in a file of package api that is not part of the sources at hand; they  *)
(* follow the static kind table (messageType, newMessage).                 *)
(***************************************************************************)
UnknownType == 0

HelloRequestType == 1
HelloResponseType == 2
ConnectRequestType == 3
ConnectResponseType == 4
DisconnectRequestType == 5
DisconnectResponseType == 6
PingRequestType == 7
PingResponseType == 8
DeviceInfoRequestType == 9
DeviceInfoResponseType == 10
ListEntitiesRequestType == 11
ListEntitiesBinarySensorResponseType == 12
ListEntitiesCoverResponseType == 13
ListEntitiesFanResponseType == 14
ListEntitiesLightResponseType == 15
ListEntitiesSensorResponseType == 16
ListEntitiesSwitchResponseType == 17
ListEntitiesTextSensorResponseType == 18
ListEntitiesDoneResponseType == 19
SubscribeStatesRequestType == 20
BinarySensorStateResponseType == 21
CoverStateResponseType == 22
FanStateResponseType == 23
LightStateResponseType == 24
SensorStateResponseType == 25
SwitchStateResponseType == 26
TextSensorStateResponseType == 27
SubscribeLogsRequestType == 28
SubscribeLogsResponseType == 29
CoverCommandRequestType == 30
FanCommandRequestType == 31
LightCommandRequestType == 32
SwitchCommandRequestType == 33
SubscribeHomeAssistantServicesRequestType == 34
HomeAssistantServiceResponseType == 35
GetTimeRequestType == 36
GetTimeResponseType == 37
SubscribeHomeAssistantStatesRequestType == 38
SubscribeHomeAssistantStateResponseType == 39
HomeAssistantStateResponseType == 40
ListEntitiesServicesResponseType == 41
ExecuteServiceRequestType == 42
ListEntitiesCameraResponseType == 43
CameraImageResponseType == 44
CameraImageRequestType == 45
ListEntitiesClimateResponseType == 46
ClimateStateResponseType == 47
ClimateCommandRequestType == 48

\* api.messageType: the static kind table, kind number -> schema.
messageType ==
    << "HelloRequest", "HelloResponse", "ConnectRequest",
       "ConnectResponse", "DisconnectRequest", "DisconnectResponse",
       "PingRequest", "PingResponse", "DeviceInfoRequest",
       "DeviceInfoResponse", "ListEntitiesRequest", "ListEntitiesBinarySensorResponse",
       "ListEntitiesCoverResponse", "ListEntitiesFanResponse", "ListEntitiesLightResponse",
       "ListEntitiesSensorResponse", "ListEntitiesSwitchResponse", "ListEntitiesTextSensorResponse",
       "ListEntitiesDoneResponse", "SubscribeStatesRequest", "BinarySensorStateResponse",
       "CoverStateResponse", "FanStateResponse", "LightStateResponse",
       "SensorStateResponse", "SwitchStateResponse", "TextSensorStateResponse",
       "SubscribeLogsRequest", "SubscribeLogsResponse", "CoverCommandRequest",
       "FanCommandRequest", "LightCommandRequest", "SwitchCommandRequest",
       "SubscribeHomeassistantServicesRequest", "HomeassistantServiceResponse", "GetTimeRequest",
       "GetTimeResponse", "SubscribeHomeAssistantStatesRequest", "SubscribeHomeAssistantStateResponse",
       "HomeAssistantStateResponse", "ListEntitiesServicesResponse", "ExecuteServiceRequest",
       "ListEntitiesCameraResponse", "CameraImageResponse", "CameraImageRequest",
       "ListEntitiesClimateResponse", "ClimateStateResponse", "ClimateCommandRequest" >>

Schemas == { messageType[k] : k \in 1 .. 48 }

\* TypeOf with the numbers of the two camera schemas exchanged.
TypeOfCameraSwapped(value) ==
    IF value = "CameraImageRequest" THEN 44
    ELSE IF value = "CameraImageResponse" THEN 45
    ELSE IF value \in Schemas THEN CHOOSE k \in 1 .. 48 : messageType[k] = value
    ELSE 0

\* api.TypeOf: the kind number of a schema; UnknownType for any other value.
TypeOf(value) ==
    CASE value = "HelloRequest" -> HelloRequestType
      [] value = "HelloResponse" -> HelloResponseType
      [] value = "ConnectRequest" -> ConnectRequestType
      [] value = "ConnectResponse" -> ConnectResponseType
      [] value = "DisconnectRequest" -> DisconnectRequestType
      [] value = "DisconnectResponse" -> DisconnectResponseType
      [] value = "PingRequest" -> PingRequestType
      [] value = "PingResponse" -> PingResponseType
      [] value = "DeviceInfoRequest" -> DeviceInfoRequestType
      [] value = "DeviceInfoResponse" -> DeviceInfoResponseType
      [] value = "ListEntitiesRequest" -> ListEntitiesRequestType
      [] value = "ListEntitiesBinarySensorResponse" -> ListEntitiesBinarySensorResponseType
      [] value = "ListEntitiesCoverResponse" -> ListEntitiesCoverResponseType
      [] value = "ListEntitiesFanResponse" -> ListEntitiesFanResponseType
      [] value = "ListEntitiesLightResponse" -> ListEntitiesLightResponseType
      [] value = "ListEntitiesSensorResponse" -> ListEntitiesSensorResponseType
      [] value = "ListEntitiesSwitchResponse" -> ListEntitiesSwitchResponseType
      [] value = "ListEntitiesTextSensorResponse" -> ListEntitiesTextSensorResponseType
      [] value = "ListEntitiesDoneResponse" -> ListEntitiesDoneResponseType
      [] value = "SubscribeStatesRequest" -> SubscribeStatesRequestType
      [] value = "BinarySensorStateResponse" -> BinarySensorStateResponseType
      [] value = "CoverStateResponse" -> CoverStateResponseType
      [] value = "FanStateResponse" -> FanStateResponseType
      [] value = "LightStateResponse" -> LightStateResponseType
      [] value = "SensorStateResponse" -> SensorStateResponseType
      [] value = "SwitchStateResponse" -> SwitchStateResponseType
      [] value = "TextSensorStateResponse" -> TextSensorStateResponseType
      [] value = "SubscribeLogsRequest" -> SubscribeLogsRequestType
      [] value = "SubscribeLogsResponse" -> SubscribeLogsResponseType
      [] value = "CoverCommandRequest" -> CoverCommandRequestType
      [] value = "FanCommandRequest" -> FanCommandRequestType
      [] value = "LightCommandRequest" -> LightCommandRequestType
      [] value = "SwitchCommandRequest" -> SwitchCommandRequestType
      [] value = "SubscribeHomeassistantServicesRequest" -> SubscribeHomeAssistantServicesRequestType
      [] value = "HomeassistantServiceResponse" -> HomeAssistantServiceResponseType
      [] value = "GetTimeRequest" -> GetTimeRequestType
      [] value = "GetTimeResponse" -> GetTimeResponseType
      [] value = "SubscribeHomeAssistantStatesRequest" -> SubscribeHomeAssistantStatesRequestType
      [] value = "SubscribeHomeAssistantStateResponse" -> SubscribeHomeAssistantStateResponseType
      [] value = "HomeAssistantStateResponse" -> HomeAssistantStateResponseType
      [] value = "ListEntitiesServicesResponse" -> ListEntitiesServicesResponseType
      [] value = "ExecuteServiceRequest" -> ExecuteServiceRequestType
      [] value = "ListEntitiesCameraResponse" -> ListEntitiesCameraResponseType
      [] value = "CameraImageResponse" -> CameraImageResponseType
      [] value = "CameraImageRequest" -> CameraImageRequestType
      [] value = "ListEntitiesClimateResponse" -> ListEntitiesClimateResponseType
      [] value = "ClimateStateResponse" -> ClimateStateResponseType
      [] value = "ClimateCommandRequest" -> ClimateCommandRequestType
      [] OTHER -> UnknownType

\* newMessage whose default case makes a message instead of returning nil.
newMessageNoDefault(kind) ==
    IF kind \in 1 .. 48 THEN messageType[kind] ELSE "HelloRequest"

\* api.newMessage: a fresh message of the schema of a kind number; "nil" if none.
newMessage(kind) ==
    CASE kind = 1 -> "HelloRequest"
      [] kind = 2 -> "HelloResponse"
      [] kind = 3 -> "ConnectRequest"
      [] kind = 4 -> "ConnectResponse"
      [] kind = 5 -> "DisconnectRequest"
      [] kind = 6 -> "DisconnectResponse"
      [] kind = 7 -> "PingRequest"
      [] kind = 8 -> "PingResponse"
      [] kind = 9 -> "DeviceInfoRequest"
      [] kind = 10 -> "DeviceInfoResponse"
      [] kind = 11 -> "ListEntitiesRequest"
      [] kind = 12 -> "ListEntitiesBinarySensorResponse"
      [] kind = 13 -> "ListEntitiesCoverResponse"
      [] kind = 14 -> "ListEntitiesFanResponse"
      [] kind = 15 -> "ListEntitiesLightResponse"
      [] kind = 16 -> "ListEntitiesSensorResponse"
      [] kind = 17 -> "ListEntitiesSwitchResponse"
      [] kind = 18 -> "ListEntitiesTextSensorResponse"
      [] kind = 19 -> "ListEntitiesDoneResponse"
      [] kind = 20 -> "SubscribeStatesRequest"
      [] kind = 21 -> "BinarySensorStateResponse"
      [] kind = 22 -> "CoverStateResponse"
      [] kind = 23 -> "FanStateResponse"
      [] kind = 24 -> "LightStateResponse"
      [] kind = 25 -> "SensorStateResponse"
      [] kind = 26 -> "SwitchStateResponse"
      [] kind = 27 -> "TextSensorStateResponse"
      [] kind = 28 -> "SubscribeLogsRequest"
      [] kind = 29 -> "SubscribeLogsResponse"
      [] kind = 30 -> "CoverCommandRequest"
      [] kind = 31 -> "FanCommandRequest"
      [] kind = 32 -> "LightCommandRequest"
      [] kind = 33 -> "SwitchCommandRequest"
      [] kind = 34 -> "SubscribeHomeassistantServicesRequest"
      [] kind = 35 -> "HomeassistantServiceResponse"
      [] kind = 36 -> "GetTimeRequest"
      [] kind = 37 -> "GetTimeResponse"
      [] kind = 38 -> "SubscribeHomeAssistantStatesRequest"
      [] kind = 39 -> "SubscribeHomeAssistantStateResponse"
      [] kind = 40 -> "HomeAssistantStateResponse"
      [] kind = 41 -> "ListEntitiesServicesResponse"
      [] kind = 42 -> "ExecuteServiceRequest"
      [] kind = 43 -> "ListEntitiesCameraResponse"
      [] kind = 44 -> "CameraImageResponse"
      [] kind = 45 -> "CameraImageRequest"
      [] kind = 46 -> "ListEntitiesClimateResponse"
      [] kind = 47 -> "ClimateStateResponse"
      [] kind = 48 -> "ClimateCommandRequest"
      [] OTHER -> "nil"

(***************************************************************************)
(* Values.  A message is a record [schema, f]: its Go type and its fields, *)
(* one value per field number, an unsigned integer or a byte string.  The  *)
(* nil message and the nil error are the values NilMessage and NoErr.      *)
(***************************************************************************)
NoErr == "nil"

\* The wire types of the fields of a message, by field number.
FieldTypes == << "varint", "varint", "bytes", "varint" >>

NoFields == << 0, 0, <<>>, 0 >>

NilMessage == [schema |-> "nil", f |-> NoFields]

Msg(schema, f) == [schema |-> schema, f |-> f]

RECURSIVE Power2(_)
Power2(n) == IF n = 0 THEN 1 ELSE 2 * Power2(n - 1)

Take(s, n) == SubSeq(s, 1, n)

Drop(s, n) == SubSeq(s, n + 1, Len(s))

(***************************************************************************)
(* encoding/binary varints, as Marshal and ReadMessage use them.           *)
(***************************************************************************)
RECURSIVE PutUvarint(_)
PutUvarint(x) ==
    IF x >= 128 THEN <<(x % 128) + 128>> \o PutUvarint(x \div 128) ELSE <<x>>

RECURSIVE ReadUvarintFrom(_, _, _, _)
ReadUvarintFrom(r, x, s, i) ==
    IF i >= 10 THEN [val |-> x, err |-> "binary: varint overflows", rest |-> r]
    ELSE IF r = <<>>
    THEN [val |-> x, err |-> IF i > 0 THEN "unexpected EOF" ELSE "EOF", rest |-> r]
    ELSE IF Head(r) < 128
    THEN IF i = 9 /\ Head(r) > 1
         THEN [val |-> x, err |-> "binary: varint overflows", rest |-> Tail(r)]
         ELSE [val |-> x + Head(r) * Power2(s), err |-> NoErr, rest |-> Tail(r)]
    ELSE ReadUvarintFrom(Tail(r), x + (Head(r) % 128) * Power2(s), s + 7, i + 1)

ReadUvarint(r) == ReadUvarintFrom(r, 0, 0, 0)

(***************************************************************************)
(* The payload encoding of the protobuf library for the fields of a        *)
(* message: a field holding its zero value is left out, a present field is *)
(* a tag (number * 8 + wire type) and a varint, or a tag, a length and the *)
(* bytes.                                                                  *)
(***************************************************************************)
RECURSIVE protoMarshalFrom(_, _)
protoMarshalFrom(f, i) ==
    IF i > Len(FieldTypes) THEN <<>>
    ELSE (IF FieldTypes[i] = "varint"
          THEN IF f[i] = 0 THEN <<>> ELSE <<8 * i>> \o PutUvarint(f[i])
          ELSE IF f[i] = <<>> THEN <<>>
               ELSE <<8 * i + 2>> \o PutUvarint(Len(f[i])) \o f[i])
         \o protoMarshalFrom(f, i + 1)

protoMarshal(f) == protoMarshalFrom(f, 1)

RECURSIVE protoUnmarshalInto(_, _)
protoUnmarshalInto(b, f) ==
    IF b = <<>> THEN [f |-> f, err |-> NoErr]
    ELSE LET tag   == ReadUvarint(b)
             num   == tag.val \div 8
             wt    == tag.val % 8
             v     == ReadUvarint(tag.rest)
             known == num \in 1 .. Len(FieldTypes)
         IN  IF tag.err # NoErr \/ v.err # NoErr \/ num = 0 \/ wt \notin {0, 2}
             THEN [f |-> f, err |-> "proto: cannot parse"]
             ELSE IF wt = 0
             THEN IF known /\ FieldTypes[num] # "varint"
                  THEN [f |-> f, err |-> "proto: cannot parse"]
                  ELSE protoUnmarshalInto(v.rest,
                           IF known THEN [f EXCEPT ![num] = v.val] ELSE f)
             ELSE IF Len(v.rest) < v.val \/ (known /\ FieldTypes[num] # "bytes")
             THEN [f |-> f, err |-> "proto: cannot parse"]
             ELSE protoUnmarshalInto(Drop(v.rest, v.val),
                      IF known THEN [f EXCEPT ![num] = Take(v.rest, v.val)] ELSE f)

protoUnmarshal(b) == protoUnmarshalInto(b, NoFields)

\* Marshal writing the kind before the length.
MarshalKindFirst(message) ==
    LET encoded == protoMarshal(message.f)
    IN  [packed |-> <<0>> \o PutUvarint(TypeOf(message.schema))
                        \o PutUvarint(Len(encoded)) \o encoded,
         err |-> NoErr]

(***************************************************************************)
(* api.Marshal: the frame of a message.                                    *)
(***************************************************************************)
Marshal(message) ==
    LET encoded == protoMarshal(message.f)
    IN  [packed |-> <<0>> \o PutUvarint(Len(encoded))
                        \o PutUvarint(TypeOf(message.schema)) \o encoded,
         err |-> NoErr]

(***************************************************************************)
(* api.ReadMessage: one frame off the front of the byte stream r.  The     *)
(* result holds the message (NilMessage with an error), the error and the  *)
(* bytes left unread.                                                      *)
(***************************************************************************)
ReadFail(err, rest) == [message |-> NilMessage, err |-> err, rest |-> rest]

ReadMessage(r) ==
    IF r = <<>> THEN ReadFail("EOF", r)
    ELSE IF Head(r) # 0
    THEN ReadFail("api: protocol error: expected null byte", Tail(r))
    ELSE LET length == ReadUvarint(Tail(r))
             kind   == ReadUvarint(length.rest)
         IN  IF length.err # NoErr THEN ReadFail(length.err, length.rest)
             ELSE IF kind.err # NoErr THEN ReadFail(kind.err, kind.rest)
             ELSE IF Len(kind.rest) < length.val
             THEN ReadFail(IF kind.rest = <<>> THEN "EOF" ELSE "unexpected EOF", <<>>)
             ELSE LET encoded == Take(kind.rest, length.val)
                      rest    == Drop(kind.rest, length.val)
                      schema  == newMessage(kind.val)
                      fields  == protoUnmarshal(encoded)
                  IN  IF schema = "nil"
                      THEN ReadFail("api: protocol error: unknown message type", rest)
                      ELSE IF fields.err # NoErr THEN ReadFail(fields.err, rest)
                      ELSE [message |-> [schema |-> schema, f |-> fields.f],
                            err |-> NoErr, rest |-> rest]

(***************************************************************************)
(* Bounds of the model.                                                    *)
(***************************************************************************)
\* Frames the device sends on one connection.
MaxFrames == 2

\* Operations each caller starts.
MaxOps == 2

MaxErrFrames == 2

MaxErrOps == 1

MaxCloseFrames == 2

MaxCloseOps == 1

MaxLoginFrames == 7

MaxLoginOps == 1

MaxCameraFrames == 3

MaxCameraOps == 1

\* Ticks of the ticker of Camera.Stream.
MaxTicks == 1

MaxServeFrames == 3

MaxServeOps == 1

MaxLogsFrames == 3

MaxLogsOps == 1

MaxQueueFrames == 18

MaxQueueOps == 1

MaxOrderFrames == 3

MaxOrderOps == 1

MaxDisplaceFrames == 2

MaxDisplaceOps == 1

MaxCommandOps == 2

MaxStreamFrames == 2

MaxStreamOps == 1

MaxExchangeFrames == 2

MaxExchangeOps == 1

MaxPushFrames == 21

MaxPushOps == 1

\* Frames written to and read from the stream of the codec specification.
MaxCodecFrames == 2

(***************************************************************************)
(* Program constants.                                                      *)
(***************************************************************************)
\* make(chan proto.Message, 16): the capacity of the inbound queue.
InCapacity == 16

\* make(chan proto.Message, 1): the capacity of a waiter's slot.
SlotCapacity == 1

ErrTimeout == "esphome: timeout"

ErrPassword == "esphome: invalid password"

ErrClosed == "use of closed network connection"

ErrDeadline == "i/o timeout"

Callers == {"a", "b"}

Reader == "rd"

\* The goroutine a capture or a subscription starts.
Worker == "go"

Threads == Callers \cup {Reader, Worker}

Kinds == 0 .. 48

NoChan == <<"none", 0>>

EntityKinds ==
    { "binarySensor", "camera", "climate", "cover", "fan", "light", "sensor",
      "switches", "textSensor" }

VARIABLES
    wire,         \* bytes the device has written and br has not yet consumed
    peer,         \* "open", or "closed" once the device has closed its side
    devlog,       \* the frames the device has written, in order
    sent,         \* frames written to conn, in order: [by, schema, packed]
    Timeout,      \* Client.Timeout: 0, or 1 for a positive duration
    connClosed,   \* conn.Close() has run
    err,          \* Client.err
    in,           \* Client.in, the inbound queue
    waitMutex,    \* Client.waitMutex: the thread holding it, or "free"
    wait,         \* Client.wait: kind -> channel (NoChan: no entry)
    chans,        \* the waiter channels made so far: id -> [buf, closed]
    lastMessage,  \* Client.lastMessage, as the number of frames read
    arrived,      \* the frames read, in order
    entities,     \* Client.entities: entity kind -> (Key -> entity)
    th,           \* per thread: operation, position and locals
    panicked,     \* a goroutine has panicked: the process is gone
    limits,       \* the bounds of the run: frames of the device, operations per caller
    stream,       \* codec specification: the bytes of a bufio.Reader
    frames,       \* codec specification: what was written and is still unread
    last,         \* codec specification: the latest ReadMessage call
    nwritten      \* codec specification: frames written

clientVars ==
    << wire, peer, devlog, sent, Timeout, connClosed, err, in, waitMutex, wait,
       chans, lastMessage, arrived, entities, th, panicked, limits >>

codecVars == << stream, frames, last, nwritten >>

vars == << clientVars, codecVars >>

(***************************************************************************)
(* The codec on a byte stream: frames are written to a stream and read     *)
(* back with ReadMessage through one bufio.Reader (TestReadMessage).       *)
(***************************************************************************)
\* testHelloResponseBytes of marshal_test.go.
testHelloResponseBytes ==
    << 0, 31, 2, 8, 1, 16, 3, 26, 25, 99, 97, 109, 101, 114, 97, 48, 32, 40, 101,
       115, 112, 104, 111, 109, 101, 32, 118, 49, 46, 49, 52, 46, 51, 41 >>

CodecPayloads == { NoFields, <<1, 3, <<>>, 0>>, <<300, 0, <<65, 66>>, 1>> }

CodecMessages ==
    { [schema |-> s, f |-> NoFields] : s \in Schemas }
    \cup { [schema |-> s, f |-> p] :
             s \in {"HelloResponse", "SensorStateResponse"}, p \in CodecPayloads }

\* Byte strings that are not the output of Marshal: the frame of the test, a
\* wrong marker, short payloads, kinds outside the table, a short varint and
\* a payload that does not parse.
RawFrames ==
    { testHelloResponseBytes, <<1, 0, 2>>, <<0, 5, 2, 8, 1>>, <<0, 3, 2>>,
      <<0, 0, 49>>, <<0, 0, 0>>, <<0, 2, 200, 1, 8, 1>>, <<0, 128>>, <<0, 1, 2, 8>> }

NoCall ==
    [called |-> FALSE, n |-> 0, marshalled |-> FALSE, message |-> NilMessage,
     bytes |-> <<>>, before |-> <<>>, res |-> ReadFail(NoErr, <<>>)]

InitCodecVars ==
    /\ stream = <<>>
    /\ frames = <<>>
    /\ last = NoCall
    /\ nwritten = 0

\* The header of a frame parses and its payload is complete.
WholeFrame(b) ==
    /\ b # <<>>
    /\ Head(b) = 0
    /\ ReadUvarint(Tail(b)).err = NoErr
    /\ ReadUvarint(ReadUvarint(Tail(b)).rest).err = NoErr
    /\ Len(ReadUvarint(ReadUvarint(Tail(b)).rest).rest) >= ReadUvarint(Tail(b)).val

FrameKind(b) == ReadUvarint(ReadUvarint(Tail(b)).rest).val

FramePayload(b) ==
    Take(ReadUvarint(ReadUvarint(Tail(b)).rest).rest, ReadUvarint(Tail(b)).val)

\* A frame ReadMessage is to accept: whole, of a kind of the table, its
\* payload parsing.
WellFormed(b) ==
    /\ WholeFrame(b)
    /\ FrameKind(b) \in 1 .. 48
    /\ protoUnmarshal(FramePayload(b)).err = NoErr

\* Nothing written so far leaves the stream out of step.
CodecInStep ==
    /\ \A i \in 1 .. Len(frames) : WellFormed(frames[i].bytes)
    /\ last.called => last.res.err = NoErr

CodecMarshal(m) ==
    /\ nwritten < MaxCodecFrames
    /\ CodecInStep
    /\ Marshal(m).err = NoErr
    /\ stream' = stream \o Marshal(m).packed
    /\ frames' = Append(frames, [marshalled |-> TRUE, message |-> m,
                                 bytes |-> Marshal(m).packed])
    /\ nwritten' = nwritten + 1
    /\ UNCHANGED last

CodecWrite(b) ==
    /\ nwritten < MaxCodecFrames
    /\ CodecInStep
    /\ stream' = stream \o b
    /\ frames' = Append(frames, [marshalled |-> FALSE, message |-> NilMessage,
                                 bytes |-> b])
    /\ nwritten' = nwritten + 1
    /\ UNCHANGED last

CodecRead ==
    /\ frames # <<>>
    /\ last' = [called |-> TRUE, n |-> last.n + 1,
                marshalled |-> Head(frames).marshalled,
                message |-> Head(frames).message, bytes |-> Head(frames).bytes,
                before |-> stream, res |-> ReadMessage(stream)]
    /\ stream' = ReadMessage(stream).rest
    /\ frames' = Tail(frames)
    /\ UNCHANGED nwritten

(***************************************************************************)
(* The client after DialTimeout: connected, nothing read or written, the   *)
(* receive loop started.                                                   *)
(***************************************************************************)
NoEntities == [k \in EntityKinds |-> [key \in {} |-> 0]]

Idle(op) ==
    [op |-> op, pc |-> IF op = "reader" THEN "select" ELSE "idle", ret |-> "idle",
     kind |-> 0, timed |-> FALSE, ch |-> NoChan, other |-> NoChan,
     message |-> NilMessage, id |-> 0, err |-> NoErr, items |-> <<>>,
     arg |-> <<>>,
     nops |-> 0, nch |-> 0, regAt |-> 0, dispAt |-> -1, afterErr |-> FALSE,
     timedOut |-> FALSE, reg |-> "none", returned |-> "none"]

InitClientVars ==
    /\ wire = <<>>
    /\ peer = "open"
    /\ devlog = <<>>
    /\ sent = <<>>
    /\ connClosed = FALSE
    /\ err = NoErr
    /\ in = <<>>
    /\ waitMutex = "free"
    /\ wait = [k \in Kinds |-> NoChan]
    /\ chans = [c \in {} |-> [buf |-> <<>>, closed |-> FALSE]]
    /\ lastMessage = 0
    /\ arrived = <<>>
    /\ entities = NoEntities
    /\ th = [t \in Threads |-> Idle(IF t = Reader THEN "reader" ELSE "idle")]
    /\ panicked = FALSE

(***************************************************************************)
(* The codec specification.                                                *)
(***************************************************************************)
InitCodec ==
    /\ InitClientVars
    /\ Timeout = 0
    /\ limits = [frames |-> 0, ops |-> 0]
    /\ InitCodecVars

NextCodec ==
    \/ \E m \in CodecMessages : CodecMarshal(m) /\ UNCHANGED clientVars
    \/ \E b \in RawFrames : CodecWrite(b) /\ UNCHANGED clientVars
    \/ CodecRead /\ UNCHANGED clientVars

SpecCodec == InitCodec /\ [][NextCodec]_vars

WrongMarker(b) == b # <<>> /\ Head(b) # 0

ShortPayload(b) ==
    /\ b # <<>> /\ Head(b) = 0
    /\ ReadUvarint(Tail(b)).err = NoErr
    /\ ReadUvarint(ReadUvarint(Tail(b)).rest).err = NoErr
    /\ Len(ReadUvarint(ReadUvarint(Tail(b)).rest).rest) < ReadUvarint(Tail(b)).val

UnknownKind(b) == WholeFrame(b) /\ FrameKind(b) \notin 1 .. 48

C9_DecodeRejects ==
    last.called =>
        /\ WrongMarker(last.before) =>
               /\ last.res.err = "api: protocol error: expected null byte"
               /\ last.res.message = NilMessage
        /\ ShortPayload(last.before) =>
               /\ last.res.err \in {"EOF", "unexpected EOF"}
               /\ last.res.message = NilMessage
        /\ UnknownKind(last.before) =>
               /\ last.res.err = "api: protocol error: unknown message type"
               /\ last.res.message = NilMessage

\* An unknown two-byte kind read after a well-formed frame.
C9_Witness ==
    /\ last.called /\ last.n = 2
    /\ UnknownKind(last.before) /\ FrameKind(last.before) = 200
    /\ last.res.err # NoErr

(***************************************************************************)
(* C10.  Marshal produces exactly 0x00, varint(payload length),            *)
(* varint(kind), payload; ReadMessage on a well-formed frame of a known    *)
(* kind succeeds, returns a message of that kind and consumes exactly the  *)
(* bytes of that frame, so consecutive frames are read one per call, in    *)
(* the order written.                                                      *)
(***************************************************************************)
KindOfSchema(s) == CHOOSE k \in 1 .. 48 : messageType[k] = s

C10_WireFormat ==
    /\ \A i \in 1 .. Len(frames) :
           frames[i].marshalled =>
               frames[i].bytes =
                   <<0>> \o PutUvarint(Len(protoMarshal(frames[i].message.f)))
                         \o PutUvarint(KindOfSchema(frames[i].message.schema))
                         \o protoMarshal(frames[i].message.f)
    /\ (last.called /\ WellFormed(last.bytes)) =>
           /\ last.res.err = NoErr
           /\ last.res.message.schema = messageType[FrameKind(last.bytes)]
           /\ last.before = last.bytes \o last.res.rest

\* The frame of the test read as the second frame of a stream.
C10_Witness ==
    /\ last.called /\ last.n = 2
    /\ last.bytes = testHelloResponseBytes
    /\ last.res.message = Msg("HelloResponse", <<1, 3, SubSeq(testHelloResponseBytes, 10, 34), 0>>)
    /\ last.res.rest = <<>>

(***************************************************************************)
(* The connection.                                                         *)
(***************************************************************************)
\* Unix seconds of Client.Clock, the injectable clock.
ClockUnix == 7

\* The error of a write to conn: the connection is closed, the write
\* deadline time.Now().Add(timeout) of sendTimeout has already passed, or
\* the device has closed its side.
WriteErr(timed, timeout) ==
    IF connClosed THEN ErrClosed
    ELSE IF timed /\ timeout <= 0 THEN ErrDeadline
    ELSE IF peer = "closed" THEN "broken pipe"
    ELSE NoErr

\* conn.Write(packed) by thread t.
Written(t, message, e) ==
    IF e = NoErr /\ Marshal(message).err = NoErr
    THEN Append(sent, [by |-> t, schema |-> message.schema,
                       packed |-> Marshal(message).packed])
    ELSE sent

(***************************************************************************)
(* Channels of proto.Message with a buffer of one: the waiter slots.       *)
(***************************************************************************)
EmptyChan == [buf |-> <<>>, closed |-> FALSE]

Item(message, id) == [message |-> message, id |-> id]

NilItem == Item(NilMessage, 0)

NewChan(t) == <<t, th[t].nch + 1>>

\* <-c can proceed: a value is buffered or c is closed.
Readable(c) == chans[c].buf # <<>> \/ chans[c].closed

\* The value <-c yields: the head of the buffer, nil from a closed channel.
Received(c) == IF chans[c].buf # <<>> THEN Head(chans[c].buf) ELSE NilItem

AfterRecv(c) == [chans EXCEPT ![c].buf = IF @ # <<>> THEN Tail(@) ELSE @]

\* An operation or call of thread t returns to position r.ret; back at "idle"
\* the operation r.op is over.
Finish(r) ==
    [r EXCEPT !.pc = r.ret, !.ch = NoChan, !.other = NoChan,
              !.returned = IF r.ret = "idle" THEN r.op ELSE r.returned]

(***************************************************************************)
(* Client.waitFor, waitDone, waitMessage, waitMessageTimeout.              *)
(***************************************************************************)
RecvPc(r) == IF r.timed THEN "wmt_select" ELSE "wm_recv"

\* in := make(chan proto.Message, 1), about to call waitFor(K, in).
StartWait(r, t, K, timed, ret) ==
    [r EXCEPT !.kind = K, !.timed = timed, !.ch = <<t, r.nch + 1>>,
              !.nch = r.nch + 1, !.other = NoChan, !.pc = "wf_lock", !.ret = ret,
              !.message = NilMessage, !.id = 0, !.err = NoErr, !.dispAt = -1,
              !.reg = "none"]

\* waitFor without an earlier waiter: c.wait[K] = in under the lock.
waitForInstall(t) ==
    /\ th[t].pc = "wf_lock"
    /\ waitMutex = "free"
    /\ wait[th[t].kind] = NoChan
    /\ wait' = [wait EXCEPT ![th[t].kind] = th[t].ch]
    /\ th' = [th EXCEPT ![t] = [@ EXCEPT !.pc = RecvPc(th[t]), !.regAt = lastMessage,
                                         !.reg = "install"]]
    /\ UNCHANGED << wire, peer, devlog, sent, Timeout, connClosed, err, in,
                    waitMutex, chans, lastMessage, arrived, entities, panicked,
                    limits >>

\* The wait on channel c is outstanding: its caller is blocked in the receive
\* and nothing has been delivered to it.
Outstanding(c) ==
    \E u \in Threads : /\ th[u].ch = c
                        /\ th[u].pc \in {"wm_recv", "wmt_select"}
                        /\ chans[c].buf = <<>>

\* waitFor finding an earlier waiter: the lock is taken and kept.
waitForLock(t) ==
    /\ th[t].pc = "wf_lock"
    /\ waitMutex = "free"
    /\ wait[th[t].kind] # NoChan
    /\ waitMutex' = t
    /\ LET other == wait[th[t].kind]
           owner == other[1]
       IN  th' = [u \in Threads |->
                    IF u = t
                    THEN [th[u] EXCEPT !.pc = "wf_send", !.other = other,
                                       !.reg = IF Outstanding(other) THEN "won"
                                                                     ELSE "taken"]
                    ELSE IF u = owner /\ th[u].ch = other
                    THEN [th[u] EXCEPT !.dispAt = lastMessage]
                    ELSE th[u]]
    /\ UNCHANGED << wire, peer, devlog, sent, Timeout, connClosed, err, in, wait,
                    chans, lastMessage, arrived, entities, panicked,
                    limits >>

\* other <- nil, holding the lock; blocks while the slot of other is full.
waitForSend(t) ==
    /\ th[t].pc = "wf_send"
    /\ IF chans[th[t].other].closed
       THEN /\ panicked' = TRUE
            /\ UNCHANGED << chans, th >>
       ELSE /\ Len(chans[th[t].other].buf) < SlotCapacity
            /\ chans' = [chans EXCEPT ![th[t].other].buf = Append(@, NilItem)]
            /\ th' = [th EXCEPT ![t].pc = "wf_close"]
            /\ UNCHANGED panicked
    /\ UNCHANGED << wire, peer, devlog, sent, Timeout, connClosed, err, in,
                    waitMutex, wait, lastMessage, arrived, entities,
                    limits >>

\* close(other); c.wait[K] = in; Unlock.
waitForClose(t) ==
    /\ th[t].pc = "wf_close"
    /\ chans' = [chans EXCEPT ![th[t].other].closed = TRUE]
    /\ wait' = [wait EXCEPT ![th[t].kind] = th[t].ch]
    /\ waitMutex' = "free"
    /\ th' = [th EXCEPT ![t] = [@ EXCEPT !.pc = RecvPc(th[t]), !.other = NoChan,
                                         !.regAt = lastMessage]]
    /\ UNCHANGED << wire, peer, devlog, sent, Timeout, connClosed, err, in,
                    lastMessage, arrived, entities, panicked, limits >>

\* message := <-in, in waitMessage and in the select of waitMessageTimeout.
waitRecv(t) ==
    /\ th[t].pc \in {"wm_recv", "wmt_select"}
    /\ Readable(th[t].ch)
    /\ chans' = AfterRecv(th[t].ch)
    /\ th' = [th EXCEPT ![t] =
                [@ EXCEPT !.pc = "wd", !.message = Received(th[t].ch).message,
                          !.id = Received(th[t].ch).id, !.err = NoErr]]
    /\ UNCHANGED << wire, peer, devlog, sent, Timeout, connClosed, err, in,
                    waitMutex, wait, lastMessage, arrived, entities, panicked,
                    limits >>

\* case <-time.After(timeout): return nil, ErrTimeout.
waitTimeout(t) ==
    /\ th[t].pc = "wmt_select"
    /\ th' = [th EXCEPT ![t] =
                [@ EXCEPT !.pc = "wd", !.message = NilMessage, !.id = 0,
                          !.err = ErrTimeout, !.timedOut = TRUE]]
    /\ UNCHANGED << wire, peer, devlog, sent, Timeout, connClosed, err, in,
                    waitMutex, wait, chans, lastMessage, arrived, entities,
                    panicked, limits >>

\* delete(c.wait, K) left out.
DeletedNothing(K) == wait

\* The table after delete(c.wait, K).
Deleted(K) == [wait EXCEPT ![K] = NoChan]

\* waitDone(K), after which the wait returns to its caller.
waitDone(t) ==
    /\ th[t].pc = "wd"
    /\ waitMutex = "free"
    /\ wait' = Deleted(th[t].kind)
    /\ th' = [th EXCEPT ![t] = Finish(@)]
    /\ UNCHANGED << wire, peer, devlog, sent, Timeout, connClosed, err, in,
                    waitMutex, chans, lastMessage, arrived, entities, panicked,
                    limits >>

(***************************************************************************)
(* Client.nextMessage, nextMessageTimeout.                                 *)
(***************************************************************************)
\* What an unsynchronised read of c.err may observe: the receive loop
\* writes the field without the lock, so a reader can still see nil.
SeenErr == IF err = NoErr THEN {NoErr} ELSE {err, NoErr}

\* About to call nextMessage (timed: nextMessageTimeout).
StartNext(r, timed, ret) ==
    [r EXCEPT !.timed = timed, !.pc = "nm_check", !.ret = ret,
              !.message = NilMessage, !.id = 0, !.err = NoErr]

\* if c.err != nil { return nil, c.err }
nextCheck(t) ==
    /\ th[t].pc = "nm_check"
    /\ \E seen \in SeenErr :
           th' = [th EXCEPT ![t] =
                    IF seen # NoErr THEN Finish([@ EXCEPT !.err = seen])
                    ELSE [@ EXCEPT !.pc = IF th[t].timed THEN "nmt_select"
                                                       ELSE "nm_recv"]]
    /\ UNCHANGED << wire, peer, devlog, sent, Timeout, connClosed, err, in,
                    waitMutex, wait, chans, lastMessage, arrived, entities,
                    panicked, limits >>

\* message := <-c.in
nextRecv(t) ==
    /\ th[t].pc \in {"nm_recv", "nmt_select"}
    /\ in # <<>>
    /\ in' = Tail(in)
    /\ th' = [th EXCEPT ![t] =
                Finish([@ EXCEPT !.message = Head(in).message, !.id = Head(in).id])]
    /\ UNCHANGED << wire, peer, devlog, sent, Timeout, connClosed, err,
                    waitMutex, wait, chans, lastMessage, arrived, entities,
                    panicked, limits >>

\* case <-time.After(timeout): return nil, ErrTimeout.
nextTimeout(t) ==
    /\ th[t].pc = "nmt_select"
    /\ th' = [th EXCEPT ![t] = Finish([@ EXCEPT !.err = ErrTimeout])]
    /\ UNCHANGED << wire, peer, devlog, sent, Timeout, connClosed, err, in,
                    waitMutex, wait, chans, lastMessage, arrived, entities,
                    panicked, limits >>

(***************************************************************************)
(* Client.send, sendTimeout, sendAndWaitResponse[Timeout].                 *)
(***************************************************************************)
\* sendAndWaitResponseTimeout(message, K, timeout) by thread t in state r, up to the
\* call of waitFor: with timeout <= 0 send and waitMessage, else sendTimeout
\* and waitMessageTimeout; a failed send returns its error to position ret.
sendAndWaitResponseTimeout(t, r, message, K, timeout, ret) ==
    LET e == WriteErr(timeout > 0, timeout)
    IN  /\ sent' = Written(t, message, e)
        /\ IF e # NoErr
           THEN /\ th' = [th EXCEPT ![t] =
                            [r EXCEPT !.err = e, !.message = NilMessage,
                                      !.id = 0, !.pc = ret]]
                /\ UNCHANGED chans
           ELSE /\ th' = [th EXCEPT ![t] = StartWait(r, t, K, timeout > 0, ret)]
                /\ chans' = chans @@ (NewChan(t) :> EmptyChan)

(***************************************************************************)
(* Client.Close.                                                           *)
(***************************************************************************)
\* The receive loop is parked in <-c.stop.  Its select has a default case,
\* so it polls the channel and is never parked on it.
ReaderParkedOnStop == FALSE

\* A sender is parked in c.stop <- struct{}{}.  The only send is that of
\* Close, in a select with a default case: it never parks.
StopSenderParked == FALSE

\* sendAndWaitResponseTimeout(&DisconnectRequest{}, DisconnectResponseType, 5s)
closeSend(t) ==
    /\ th[t].pc = "cl_send"
    /\ sendAndWaitResponseTimeout(t, th[t], Msg("DisconnectRequest", NoFields),
                                  DisconnectResponseType, 5, "cl_stop")
    /\ UNCHANGED << wire, peer, devlog, Timeout, connClosed, err, in, waitMutex,
                    wait, lastMessage, arrived, entities, panicked, limits >>

\* select { case c.stop <- struct{}{}: default: }; return err.  The send on
\* the unbuffered channel succeeds only with the receive loop parked in its
\* receive; Close called by the receive loop (handleInternal) returns to it.
closeStop(t) ==
    /\ th[t].pc = "cl_stop"
    /\ th' = [u \in Threads |->
                IF u = t
                THEN IF t = Reader
                     THEN [th[t] EXCEPT !.pc = "select"]
                     ELSE Finish([th[t] EXCEPT !.ret = "idle"])
                ELSE IF u = Reader /\ ReaderParkedOnStop
                THEN [th[u] EXCEPT !.pc = "stopped"]
                ELSE th[u]]
    /\ connClosed' = (connClosed \/ (t # Reader /\ ReaderParkedOnStop))
    /\ UNCHANGED << wire, peer, devlog, sent, Timeout, err, in, waitMutex, wait,
                    chans, lastMessage, arrived, entities, panicked,
                    limits >>

(***************************************************************************)
(* The receive loop: Client.reader, readMessage, handleInternal.           *)
(***************************************************************************)
\* The callbacks an application can register on an entity.
Handlers ==
    { "HandleState", "HandleBrightness", "HandleColor", "HandleColorTemperature",
      "HandleEffect" }

\* LightState{}: floating values count in units of 1e-7.
ZeroLight ==
    [On |-> FALSE, Brightness |-> 0, Red |-> 0, Green |-> 0, Blue |-> 0,
     White |-> 0, ColorTemperature |-> 0, Effect |-> <<>>]

\* newSensor and its siblings: the identity of the listed item, the state at
\* its zero value, no callback; a light keeps the capabilities the item
\* lists, SupportsBrightness in f[2] and SupportsRgb in f[4], the two a frame
\* of the model does not carry being false.  Called is the log of the callbacks the
\* updates have invoked, with their arguments, Updates the number of
\* updates applied.
newEntity(item) ==
    [Key |-> item.f[1], UniqueID |-> item.f[3],
     State |-> IF item.schema = "ListEntitiesLightResponse" THEN ZeroLight ELSE 0,
     Capabilities |-> IF item.schema = "ListEntitiesLightResponse"
                      THEN [Brightness |-> (item.f[2] = 1), RGB |-> (item.f[4] = 1),
                            WhiteValue |-> FALSE, ColorTemperature |-> FALSE]
                      ELSE {},
     StateIsValid |-> FALSE, Handle |-> {}, Called |-> <<>>, Updates |-> 0]

\* The tolerance of equal, 1e-6, in units of 1e-7.
Epsilon == 10

EqualExactly(a, b) == a = b

\* equal(a, b): math.Abs(float64(a)-float64(b)) <= 1e-6.
equal(a, b) == (IF a >= b THEN a - b ELSE b - a) <= Epsilon

\* An update that marks every state valid.
SensorAlwaysValid(entity, state) ==
    [entity EXCEPT !.State = state.State, !.StateIsValid = TRUE,
                   !.Updates = @ + 1]

\* Sensor.update(state).
sensorUpdate(entity, state) ==
    [entity EXCEPT
        !.Called = IF /\ ~state.MissingState
                      /\ "HandleState" \in entity.Handle
                      /\ ~equal(entity.State, state.State)
                   THEN Append(@, <<"HandleState", state.State>>) ELSE @,
        !.State = state.State,
        !.StateIsValid = ~state.MissingState,
        !.Updates = @ + 1]

\* Switch.update(state); AssumedState is left out.
switchUpdate(entity, state) ==
    [entity EXCEPT
        !.Called = IF "HandleState" \in entity.Handle
                   THEN Append(@, <<"HandleState", state.State>>) ELSE @,
        !.State = state.State,
        !.Updates = @ + 1]

\* Light.update(state): the four callbacks in the order of the code, then
\* the commit of every field.
lightUpdate(entity, state) ==
    LET s == entity.State
        valid == entity.StateIsValid
        onoff == IF "HandleState" \in entity.Handle /\ state.State # s.On
                 THEN << <<"HandleState", TRUE>> >> ELSE <<>>
        colour == IF /\ "HandleColor" \in entity.Handle
                     /\ \/ ~valid
                        \/ ~equal(s.Red, state.Red)
                        \/ ~equal(s.Green, state.Green)
                        \/ ~equal(s.Blue, state.Blue)
                        \/ ~equal(s.White, state.White)
                  THEN << <<"HandleColor",
                            <<state.Red, state.Green, state.Blue, state.White>> >> >>
                  ELSE <<>>
        temperature == IF /\ "HandleColorTemperature" \in entity.Handle
                          /\ (~valid \/ ~equal(s.ColorTemperature, state.ColorTemperature))
                       THEN << <<"HandleColorTemperature", state.ColorTemperature>> >>
                       ELSE <<>>
        effect == IF /\ "HandleEffect" \in entity.Handle
                     /\ (~valid \/ s.Effect # state.Effect)
                  THEN << <<"HandleEffect", state.Effect>> >> ELSE <<>>
    IN  [entity EXCEPT
            !.Called = @ \o onoff \o colour \o temperature \o effect,
            !.State = [On |-> state.State, Brightness |-> state.Brightness,
                       Red |-> state.Red, Green |-> state.Green,
                       Blue |-> state.Blue, White |-> state.White,
                       ColorTemperature |-> state.ColorTemperature,
                       Effect |-> state.Effect],
            !.StateIsValid = TRUE,
            !.Updates = @ + 1]

\* The map handleInternal looks a state update up in; "none" for the kinds
\* it does not apply.
UpdatedKind(message) ==
    CASE message.schema = "LightStateResponse" -> "light"
      [] message.schema = "SensorStateResponse" -> "sensor"
      [] message.schema = "SwitchStateResponse" -> "switches"
      [] OTHER -> "none"

\* entity.update(state) of the case of handleInternal for the kind.
update(kind, entity, state) ==
    CASE kind = "light" -> lightUpdate(entity, state)
      [] kind = "sensor" -> sensorUpdate(entity, state)
      [] OTHER -> switchUpdate(entity, state)

\* The state message a frame decodes to: Key f[1], State f[2], Effect f[3],
\* and f[4] for MissingState or Brightness; the fields a frame of the model
\* does not carry are zero.
Decoded(message) ==
    CASE message.schema = "LightStateResponse" ->
            [schema |-> message.schema, Key |-> message.f[1],
             State |-> (message.f[2] = 1), Brightness |-> message.f[4],
             Red |-> 0, Green |-> 0, Blue |-> 0, White |-> 0,
             ColorTemperature |-> 0, Effect |-> message.f[3]]
      [] message.schema = "SensorStateResponse" ->
            [schema |-> message.schema, Key |-> message.f[1],
             State |-> message.f[2], MissingState |-> (message.f[4] = 1)]
      [] OTHER -> [schema |-> message.schema, Key |-> message.f[1],
                   State |-> message.f[2]]

\* A dispatch that forgets the entity it updates.
DispatchedForgetting(ents, state) ==
    LET kind == UpdatedKind(state)
    IN  IF kind # "none" /\ state.Key \in DOMAIN ents[kind]
        THEN [ents EXCEPT ![kind] = [k \in DOMAIN @ \ {state.Key} |-> @[k]]]
        ELSE ents

\* The entity maps ents after the state cases of handleInternal(state).
Dispatched(ents, state) ==
    LET kind == UpdatedKind(state)
    IN  IF kind # "none" /\ state.Key \in DOMAIN ents[kind]
        THEN [ents EXCEPT ![kind][state.Key] = update(kind, @, state)]
        ELSE ents

\* c.entities after handleInternal(message).
handleEntities(message) == Dispatched(entities, Decoded(message))

\* A loop that answers the disconnect request only.
handleReplySilent(message) ==
    IF message.schema = "DisconnectRequest"
    THEN << Msg("DisconnectResponse", NoFields) >> ELSE <<>>

\* The reply handleInternal sends, if any; EpochSeconds is
\* uint32(c.Clock().Unix()), the clock being within the range of uint32.
handleReply(message) ==
    CASE message.schema = "DisconnectRequest" -> << Msg("DisconnectResponse", NoFields) >>
      [] message.schema = "PingRequest" -> << Msg("PingResponse", NoFields) >>
      [] message.schema = "GetTimeRequest" ->
            << Msg("GetTimeResponse", <<ClockUnix, 0, <<>>, 0>>) >>
      [] OTHER -> <<>>

\* The position of the receive loop after handleInternal(message): in Close
\* for a disconnect request, at the next frame when the message was handled,
\* else at the lookup of a waiter.
handlePc(message) ==
    CASE message.schema = "DisconnectRequest" -> "cl_send"
      [] message.schema \in {"PingRequest", "GetTimeRequest"} -> "select"
      [] OTHER -> "lookup"

\* One turn of the loop of reader up to handleInternal.  The select takes
\* case <-c.stop only with a sender parked on the channel, else its default
\* case: api.ReadMessage(c.br), blocking until a frame or an error is there;
\* on an error c.err = err, return and the deferred c.conn.Close(); else
\* handleInternal(message).
readerRead ==
    /\ th[Reader].pc = "select"
    /\ LET res == ReadMessage(wire)
           m   == res.message
       IN  IF StopSenderParked
           THEN /\ connClosed' = TRUE
                /\ th' = [th EXCEPT ![Reader].pc = "stopped"]
                /\ UNCHANGED << wire, err, sent, lastMessage, arrived, entities >>
           ELSE /\ ~(res.err \in {"EOF", "unexpected EOF"} /\ peer = "open")
                /\ wire' = res.rest
                /\ IF res.err # NoErr
                   THEN /\ err' = res.err
                        /\ connClosed' = TRUE
                        /\ th' = [th EXCEPT ![Reader].pc = "stopped"]
                        /\ UNCHANGED << sent, lastMessage, arrived, entities >>
                   ELSE /\ lastMessage' = lastMessage + 1
                        /\ arrived' = Append(arrived, m)
                        /\ sent' = IF handleReply(m) = <<>> THEN sent
                                   ELSE Written(Reader, handleReply(m)[1],
                                                WriteErr(TRUE, Timeout))
                        /\ entities' = handleEntities(m)
                        /\ th' = [th EXCEPT ![Reader] =
                                    [@ EXCEPT !.pc = handlePc(m), !.message = m,
                                              !.id = lastMessage + 1]]
                        /\ UNCHANGED << err, connClosed >>
    /\ UNCHANGED << peer, devlog, Timeout, in, waitMutex, wait, chans, panicked,
                    limits >>

\* in, waiting := c.wait[api.TypeOf(message)], under the lock.
readerLookup ==
    /\ th[Reader].pc = "lookup"
    /\ waitMutex = "free"
    /\ th' = [th EXCEPT ![Reader] =
                [@ EXCEPT !.pc = "deliver",
                          !.other = wait[TypeOf(th[Reader].message.schema)]]]
    /\ UNCHANGED << wire, peer, devlog, sent, Timeout, connClosed, err, in,
                    waitMutex, wait, chans, lastMessage, arrived, entities,
                    panicked, limits >>

\* in <- message to the waiter found: blocks while its slot is full, panics
\* once the channel is closed.
readerDeliverWaiter ==
    /\ th[Reader].pc = "deliver"
    /\ th[Reader].other # NoChan
    /\ IF chans[th[Reader].other].closed
       THEN /\ panicked' = TRUE
            /\ UNCHANGED << chans, th >>
       ELSE /\ Len(chans[th[Reader].other].buf) < SlotCapacity
            /\ chans' = [chans EXCEPT ![th[Reader].other].buf =
                            Append(@, Item(th[Reader].message, th[Reader].id))]
            /\ th' = [th EXCEPT ![Reader] =
                        [@ EXCEPT !.pc = "select", !.other = NoChan,
                                  !.message = NilMessage, !.id = 0]]
            /\ UNCHANGED panicked
    /\ UNCHANGED << wire, peer, devlog, sent, Timeout, connClosed, err, in,
                    waitMutex, wait, lastMessage, arrived, entities,
                    limits >>

\* A hand-off that puts the message at the head of the queue.
readerDeliverQueueFirst ==
    /\ th[Reader].pc = "deliver"
    /\ th[Reader].other = NoChan
    /\ Len(in) < InCapacity
    /\ in' = << Item(th[Reader].message, th[Reader].id) >> \o in
    /\ th' = [th EXCEPT ![Reader] =
                [@ EXCEPT !.pc = "select", !.message = NilMessage, !.id = 0]]
    /\ UNCHANGED << wire, peer, devlog, sent, Timeout, connClosed, err,
                    waitMutex, wait, chans, lastMessage, arrived, entities,
                    panicked, limits >>

\* A hand-off that drops the message when the queue is full.
readerDeliverQueueOrDrop ==
    /\ th[Reader].pc = "deliver"
    /\ th[Reader].other = NoChan
    /\ in' = IF Len(in) < InCapacity
             THEN Append(in, Item(th[Reader].message, th[Reader].id)) ELSE in
    /\ th' = [th EXCEPT ![Reader] =
                [@ EXCEPT !.pc = "select", !.message = NilMessage, !.id = 0]]
    /\ UNCHANGED << wire, peer, devlog, sent, Timeout, connClosed, err,
                    waitMutex, wait, chans, lastMessage, arrived, entities,
                    panicked, limits >>

\* c.in <- message without a waiter: blocks while the queue is full.
readerDeliverQueue ==
    /\ th[Reader].pc = "deliver"
    /\ th[Reader].other = NoChan
    /\ Len(in) < InCapacity
    /\ in' = Append(in, Item(th[Reader].message, th[Reader].id))
    /\ th' = [th EXCEPT ![Reader] =
                [@ EXCEPT !.pc = "select", !.message = NilMessage, !.id = 0]]
    /\ UNCHANGED << wire, peer, devlog, sent, Timeout, connClosed, err,
                    waitMutex, wait, chans, lastMessage, arrived, entities,
                    panicked, limits >>

(***************************************************************************)
(* The device at the other end of the connection.                          *)
(***************************************************************************)
deviceSend(message) ==
    /\ Len(devlog) < limits.frames
    /\ peer = "open" /\ ~connClosed
    /\ wire' = wire \o Marshal(message).packed
    /\ devlog' = Append(devlog, message)
    /\ UNCHANGED << peer, sent, Timeout, connClosed, err, in, waitMutex, wait,
                    chans, lastMessage, arrived, entities, th, panicked,
                    limits >>

\* Bytes that are no frame: a first byte other than 0x00.
deviceGarbage ==
    /\ Len(devlog) < limits.frames
    /\ peer = "open" /\ ~connClosed
    /\ wire' = wire \o <<1>>
    /\ devlog' = Append(devlog, Msg("garbage", NoFields))
    /\ UNCHANGED << peer, sent, Timeout, connClosed, err, in, waitMutex, wait,
                    chans, lastMessage, arrived, entities, th, panicked,
                    limits >>

deviceClose ==
    /\ peer = "open" /\ ~connClosed
    /\ peer' = "closed"
    /\ UNCHANGED << wire, devlog, sent, Timeout, connClosed, err, in, waitMutex,
                    wait, chans, lastMessage, arrived, entities, th, panicked,
                    limits >>

(***************************************************************************)
(* Callers: goroutines of the program using the client.                    *)
(***************************************************************************)
\* Thread state r at the start of operation op.
Begin(r, op) ==
    [r EXCEPT !.op = op, !.nops = r.nops + 1, !.returned = "none",
              !.afterErr = (err # NoErr), !.items = <<>>]

CanStart(t) == th[t].pc = "idle" /\ th[t].nops < limits.ops

\* c.waitMessage(K)
startWaitMessage(t, K) ==
    /\ CanStart(t)
    /\ th' = [th EXCEPT ![t] = StartWait(Begin(@, "waitMessage"), t, K, FALSE, "idle")]
    /\ chans' = chans @@ (NewChan(t) :> EmptyChan)
    /\ UNCHANGED << wire, peer, devlog, sent, Timeout, connClosed, err, in,
                    waitMutex, wait, lastMessage, arrived, entities, panicked,
                    limits >>

\* c.waitMessageTimeout(K, d)
startWaitMessageTimeout(t, K) ==
    /\ CanStart(t)
    /\ th' = [th EXCEPT ![t] =
                StartWait(Begin(@, "waitMessageTimeout"), t, K, TRUE, "idle")]
    /\ chans' = chans @@ (NewChan(t) :> EmptyChan)
    /\ UNCHANGED << wire, peer, devlog, sent, Timeout, connClosed, err, in,
                    waitMutex, wait, lastMessage, arrived, entities, panicked,
                    limits >>

\* c.nextMessage()
startNextMessage(t) ==
    /\ CanStart(t)
    /\ th' = [th EXCEPT ![t] = StartNext(Begin(@, "nextMessage"), FALSE, "idle")]
    /\ UNCHANGED << wire, peer, devlog, sent, Timeout, connClosed, err, in,
                    waitMutex, wait, chans, lastMessage, arrived, entities,
                    panicked, limits >>

\* c.nextMessageTimeout(d)
startNextMessageTimeout(t) ==
    /\ CanStart(t)
    /\ th' = [th EXCEPT ![t] = StartNext(Begin(@, "nextMessageTimeout"), TRUE, "idle")]
    /\ UNCHANGED << wire, peer, devlog, sent, Timeout, connClosed, err, in,
                    waitMutex, wait, chans, lastMessage, arrived, entities,
                    panicked, limits >>

\* c.DeviceInfo(), up to the wait for the response.
startDeviceInfo(t) ==
    /\ CanStart(t)
    /\ sendAndWaitResponseTimeout(t, Begin(th[t], "DeviceInfo"),
                                  Msg("DeviceInfoRequest", NoFields),
                                  DeviceInfoResponseType, Timeout, "di_ret")
    /\ UNCHANGED << wire, peer, devlog, Timeout, connClosed, err, in, waitMutex,
                    wait, lastMessage, arrived, entities, panicked, limits >>

\* DeviceInfo after the exchange: the error, or message.(*api.DeviceInfoResponse),
\* which panics on a nil message.
deviceInfoReturn(t) ==
    /\ th[t].pc = "di_ret"
    /\ IF th[t].err = NoErr /\ th[t].message.schema # "DeviceInfoResponse"
       THEN /\ panicked' = TRUE
            /\ UNCHANGED th
       ELSE /\ th' = [th EXCEPT ![t] = Finish([@ EXCEPT !.ret = "idle"])]
            /\ UNCHANGED panicked
    /\ UNCHANGED << wire, peer, devlog, sent, Timeout, connClosed, err, in,
                    waitMutex, wait, chans, lastMessage, arrived, entities,
                    limits >>

\* c.Close()
startClose(t) ==
    /\ CanStart(t)
    /\ th' = [th EXCEPT ![t] = [Begin(@, "Close") EXCEPT !.pc = "cl_send"]]
    /\ UNCHANGED << wire, peer, devlog, sent, Timeout, connClosed, err, in,
                    waitMutex, wait, chans, lastMessage, arrived, entities,
                    panicked, limits >>

(***************************************************************************)
(* Spec: two callers waiting for one kind of message on one connection    *)
(* while the device sends frames of that kind and of a kind nobody awaits. *)
(***************************************************************************)
WaitKinds == { DeviceInfoResponseType }

DeviceMessages ==
    { Msg("DeviceInfoResponse", <<1, 0, <<>>, 0>>), Msg("PingResponse", NoFields) }

Init ==
    /\ InitClientVars
    /\ Timeout = 1
    /\ limits = [frames |-> MaxFrames, ops |-> MaxOps]
    /\ InitCodecVars

readerNext ==
    \/ readerRead
    \/ readerLookup
    \/ readerDeliverWaiter
    \/ readerDeliverQueue

waitNext(t) ==
    \/ waitForInstall(t)
    \/ waitForLock(t)
    \/ waitForSend(t)
    \/ waitForClose(t)
    \/ waitRecv(t)
    \/ waitTimeout(t)
    \/ waitDone(t)

queueNext(t) ==
    \/ nextCheck(t)
    \/ nextRecv(t)
    \/ nextTimeout(t)

Next ==
    /\ ~panicked
    /\ UNCHANGED codecVars
    /\ \/ readerNext
       \/ \E m \in DeviceMessages : deviceSend(m)
       \/ \E t \in Callers :
            \/ \E K \in WaitKinds : startWaitMessage(t, K)
            \/ \E K \in WaitKinds : startWaitMessageTimeout(t, K)
            \/ waitNext(t)

Spec == Init /\ [][Next]_vars

(***************************************************************************)
(* Waits of the callers, read off the thread records.                      *)
(***************************************************************************)
\* The wait of t is registered and blocked in its receive.
Pending(t) == th[t].pc \in {"wm_recv", "wmt_select"}

\* waitMessage or waitMessageTimeout of t has returned.
WaitReturned(t) ==
    th[t].pc = "idle" /\ th[t].returned \in {"waitMessage", "waitMessageTimeout"}

\* No frame of kind K among the frames read from the n-th on.
NoneArrivedFrom(K, n) ==
    \A j \in 1 .. Len(arrived) : j >= n => TypeOf(arrived[j].schema) # K

\* No frame of kind K among the frames read strictly between the n-th and
\* the m-th.
NoneArrivedBetween(K, n, m) ==
    \A j \in 1 .. Len(arrived) : (n < j /\ j < m) => TypeOf(arrived[j].schema) # K

(***************************************************************************)
(* C1.  A caller registering a wait for kind K while another caller's wait *)
(* for K is outstanding displaces it: the earlier caller returns a nil     *)
(* message, or a message read before the displacement, never a message of  *)
(* kind K read after it; and the later caller holds the slot for K for as  *)
(* long as its own wait is pending and not itself displaced.               *)
(***************************************************************************)
C1_Displacement ==
    \A t \in Callers :
        /\ (WaitReturned(t) /\ th[t].dispAt >= 0 /\ th[t].message # NilMessage) =>
               th[t].id <= th[t].dispAt
        /\ (Pending(t) /\ th[t].reg = "won" /\ th[t].dispAt = -1) =>
               wait[th[t].kind] = th[t].ch

(***************************************************************************)
(* C2.  waitMessageTimeout(K, d) during which no frame of kind K is read   *)
(* returns ErrTimeout; no entry of the waiter table outlives the wait that *)
(* made it; and a wait that registers on an empty slot and is not          *)
(* displaced returns the first frame of kind K read after it registered,   *)
(* also when an earlier wait for K has timed out.                          *)
(***************************************************************************)
C2_TimeoutHygiene ==
    /\ \A K \in Kinds :
           wait[K] # NoChan =>
               \E u \in Threads : /\ th[u].ch = wait[K]
                                   /\ th[u].pc \in {"wm_recv", "wmt_select", "wd"}
    /\ \A t \in Callers :
           (WaitReturned(t) /\ th[t].reg = "install" /\ th[t].dispAt = -1) =>
               /\ th[t].err \in {NoErr, ErrTimeout}
               /\ th[t].err = ErrTimeout => th[t].message = NilMessage
               /\ NoneArrivedFrom(th[t].kind, th[t].regAt) => th[t].err = ErrTimeout
               /\ th[t].err = NoErr =>
                      /\ th[t].message # NilMessage
                      /\ TypeOf(th[t].message.schema) = th[t].kind
                      /\ th[t].id >= th[t].regAt
                      /\ arrived[th[t].id] = th[t].message
                      /\ NoneArrivedBetween(th[t].kind, th[t].regAt, th[t].id)

\* A caller whose first wait timed out and whose second wait, registered on
\* the empty slot, has returned a frame read after it registered.
C2_Witness ==
    \E t \in Callers :
        /\ WaitReturned(t) /\ th[t].nops = 2 /\ th[t].timedOut
        /\ th[t].reg = "install" /\ th[t].dispAt = -1
        /\ th[t].err = NoErr /\ th[t].message # NilMessage
        /\ th[t].id > th[t].regAt

(***************************************************************************)
(* SpecErr: two callers, one operation each, on a connection the device    *)
(* may break with bytes that are no frame or by closing its side.          *)
(***************************************************************************)
InitErr ==
    /\ InitClientVars
    /\ Timeout = 1
    /\ limits = [frames |-> MaxErrFrames, ops |-> MaxErrOps]
    /\ InitCodecVars

NextErr ==
    /\ ~panicked
    /\ UNCHANGED codecVars
    /\ \/ readerNext
       \/ \E m \in DeviceMessages : deviceSend(m)
       \/ deviceGarbage
       \/ deviceClose
       \/ \E t \in Callers :
            \/ \E K \in WaitKinds : startWaitMessage(t, K)
            \/ \E K \in WaitKinds : startWaitMessageTimeout(t, K)
            \/ startNextMessage(t)
            \/ startNextMessageTimeout(t)
            \/ startDeviceInfo(t)
            \/ deviceInfoReturn(t)
            \/ waitNext(t)
            \/ queueNext(t)

SpecErr == InitErr /\ [][NextErr]_vars

(***************************************************************************)
(* C3.  Once the receive loop has stored a decode or I/O failure in c.err, *)
(* the error stays, and an operation a caller starts afterwards            *)
(* (nextMessage, nextMessageTimeout, waitMessage, waitMessageTimeout, a    *)
(* request/response helper) never waits in a receive: it returns, and what *)
(* it returns is the stored error.                                         *)
(***************************************************************************)
C3_TerminalError ==
    \A t \in Callers :
        th[t].afterErr =>
            /\ err # NoErr
            /\ th[t].pc \notin {"wm_recv", "wmt_select", "nm_recv", "nmt_select"}
            /\ (th[t].pc = "idle" /\ th[t].returned # "none") => th[t].err = err

(***************************************************************************)
(* SpecClose: one caller closing the connection while the device answers,  *)
(* asks for the disconnect itself, closes its side or stays silent.  The   *)
(* goroutines of the client are scheduled fairly and the timer of a timed  *)
(* wait fires; nothing obliges the device to send.                         *)
(***************************************************************************)
CloseCallers == {"a"}

CloseDeviceMessages ==
    { Msg("DisconnectResponse", NoFields), Msg("DisconnectRequest", NoFields) }

InitClose ==
    /\ InitClientVars
    /\ Timeout = 1
    /\ limits = [frames |-> MaxCloseFrames, ops |-> MaxCloseOps]
    /\ InitCodecVars

\* Close in thread t: a caller, or the receive loop inside handleInternal.
closeNext(t) ==
    \/ closeSend(t)
    \/ waitNext(t)
    \/ closeStop(t)

NextClose ==
    /\ ~panicked
    /\ UNCHANGED codecVars
    /\ \/ readerNext
       \/ \E m \in CloseDeviceMessages : deviceSend(m)
       \/ deviceClose
       \/ \E t \in CloseCallers : startClose(t)
       \/ \E t \in Threads : closeNext(t)

\* A step of goroutine t of the client.
FairStep(t) ==
    /\ ~panicked
    /\ UNCHANGED codecVars
    /\ \/ t = Reader /\ readerNext
       \/ closeNext(t)

SpecClose ==
    /\ InitClose
    /\ [][NextClose]_vars
    /\ \A t \in Threads : WF_vars(FairStep(t))

(***************************************************************************)
(* C4.  Once Close() has returned, its disconnect exchange ended by the    *)
(* response or by the timeout, the receive loop eventually stops and its   *)
(* cleanup closes the socket, whatever the device does; and Close never    *)
(* stays in its stop signal.                                               *)
(***************************************************************************)
CloseReturned(t) == th[t].pc = "idle" /\ th[t].returned = "Close"

LoopStopped == th[Reader].pc = "stopped" /\ connClosed

C4_CloseStopsLoop ==
    /\ \A t \in CloseCallers : CloseReturned(t) ~> LoopStopped
    /\ \A t \in Threads : (th[t].pc = "cl_stop") ~> (th[t].pc # "cl_stop")

(***************************************************************************)
(* Client.Login, listEntities, Entities.                                   *)
(***************************************************************************)
\* connectResponse.InvalidPassword, field 1 of the message.
InvalidPasswordIgnored(message) == FALSE

InvalidPassword(message) == message.f[1] = 1

\* The messages listEntities appends to its result.
IsDescription(schema) ==
    schema \in { "ListEntitiesBinarySensorResponse", "ListEntitiesCameraResponse",
                 "ListEntitiesClimateResponse", "ListEntitiesCoverResponse",
                 "ListEntitiesFanResponse", "ListEntitiesLightResponse",
                 "ListEntitiesSensorResponse", "ListEntitiesServicesResponse",
                 "ListEntitiesSwitchResponse", "ListEntitiesTextSensorResponse" }

\* The map Login inserts a listed item into; "none" in the default case.
ListedKind(schema) ==
    CASE schema = "ListEntitiesBinarySensorResponse" -> "binarySensor"
      [] schema = "ListEntitiesCameraResponse" -> "camera"
      [] schema = "ListEntitiesClimateResponse" -> "climate"
      [] schema = "ListEntitiesCoverResponse" -> "cover"
      [] schema = "ListEntitiesFanResponse" -> "fan"
      [] schema = "ListEntitiesLightResponse" -> "light"
      [] schema = "ListEntitiesSensorResponse" -> "sensor"
      [] schema = "ListEntitiesSwitchResponse" -> "switches"
      [] schema = "ListEntitiesTextSensorResponse" -> "textSensor"
      [] OTHER -> "none"

\* m[key] = value of a Go map.
MapSet(m, key, value) ==
    [k \in DOMAIN m \cup {key} |-> IF k = key THEN value ELSE m[k]]

InsertedNone(ents, items) == ents

\* c.entities after the loop of Login over the listed items.
RECURSIVE Inserted(_, _)
Inserted(ents, items) ==
    IF items = <<>> THEN ents
    ELSE LET item == Head(items)
             kind == ListedKind(item.schema)
         IN  Inserted(IF kind = "none" THEN ents
                      ELSE [ents EXCEPT ![kind] = MapSet(@, item.f[1], newEntity(item))],
                      Tail(items))

\* Every partition filled from the sensor map.
EntitiesOfSensors(kind) ==
    LET m == entities["sensor"]
        ids == { m[k].UniqueID : k \in DOMAIN m }
    IN  { g \in [ids -> { m[k] : k \in DOMAIN m }] : \A u \in ids : g[u].UniqueID = u }

\* The maps c.Entities() can return for one kind: every item of the kind's
\* map under its UniqueID; of items sharing a UniqueID the one the iteration
\* reaches last.
Entities(kind) ==
    LET m == entities[kind]
        ids == { m[k].UniqueID : k \in DOMAIN m }
    IN  { g \in [ids -> { m[k] : k \in DOMAIN m }] : \A u \in ids : g[u].UniqueID = u }

\* Login(password), up to the wait for the HelloResponse.
startLogin(t, password) ==
    /\ CanStart(t)
    /\ sendAndWaitResponseTimeout(t, [Begin(th[t], "Login") EXCEPT !.arg = password],
                                  Msg("HelloRequest", NoFields),
                                  HelloResponseType, Timeout, "lg_hello")
    /\ UNCHANGED << wire, peer, devlog, Timeout, connClosed, err, in, waitMutex,
                    wait, lastMessage, arrived, entities, panicked, limits >>

\* After the hello exchange: its error, or the connect request and the wait
\* for the ConnectResponse.
loginHello(t) ==
    /\ th[t].pc = "lg_hello"
    /\ IF th[t].err # NoErr
       THEN /\ th' = [th EXCEPT ![t] = Finish([@ EXCEPT !.ret = "idle"])]
            /\ UNCHANGED << sent, chans >>
       ELSE sendAndWaitResponseTimeout(t, th[t],
                                       Msg("ConnectRequest", <<0, 0, th[t].arg, 0>>),
                                       ConnectResponseType, Timeout, "lg_connect")
    /\ UNCHANGED << wire, peer, devlog, Timeout, connClosed, err, in, waitMutex,
                    wait, lastMessage, arrived, entities, panicked, limits >>

\* After the connect exchange: its error; message.(*api.ConnectResponse),
\* which panics on a nil message; ErrPassword; else listEntities up to its
\* first nextMessageTimeout: sendTimeout(&ListEntitiesRequest{}, c.Timeout).
loginConnect(t) ==
    /\ th[t].pc = "lg_connect"
    /\ LET e == WriteErr(TRUE, Timeout)
       IN  IF th[t].err # NoErr
           THEN /\ th' = [th EXCEPT ![t] = Finish([@ EXCEPT !.ret = "idle"])]
                /\ UNCHANGED << sent, panicked >>
           ELSE IF th[t].message.schema # "ConnectResponse"
           THEN /\ panicked' = TRUE
                /\ UNCHANGED << sent, th >>
           ELSE IF InvalidPassword(th[t].message)
           THEN /\ th' = [th EXCEPT ![t] =
                            Finish([@ EXCEPT !.ret = "idle", !.err = ErrPassword])]
                /\ UNCHANGED << sent, panicked >>
           ELSE /\ sent' = Written(t, Msg("ListEntitiesRequest", NoFields), e)
                /\ th' = [th EXCEPT ![t] =
                            IF e # NoErr
                            THEN Finish([@ EXCEPT !.ret = "idle", !.err = e])
                            ELSE StartNext([@ EXCEPT !.items = <<>>], TRUE, "le_got")]
                /\ UNCHANGED panicked
    /\ UNCHANGED << wire, peer, devlog, Timeout, connClosed, err, in, waitMutex,
                    wait, chans, lastMessage, arrived, entities, limits >>

\* The loop of listEntities after nextMessageTimeout: its error returned by
\* Login; the list complete on ListEntitiesDoneResponse; a description
\* appended; any other message dropped.
listEntitiesNext(t) ==
    /\ th[t].pc = "le_got"
    /\ th' = [th EXCEPT ![t] =
                IF th[t].err # NoErr
                THEN Finish([@ EXCEPT !.ret = "idle", !.items = <<>>])
                ELSE IF th[t].message.schema = "ListEntitiesDoneResponse"
                THEN [@ EXCEPT !.pc = "lg_insert"]
                ELSE IF IsDescription(th[t].message.schema)
                THEN StartNext([@ EXCEPT !.items = Append(@, th[t].message)],
                               TRUE, "le_got")
                ELSE StartNext(@, TRUE, "le_got")]
    /\ UNCHANGED << wire, peer, devlog, sent, Timeout, connClosed, err, in,
                    waitMutex, wait, chans, lastMessage, arrived, entities,
                    panicked, limits >>

\* for _, item := range entities { ... }
loginInsert(t) ==
    /\ th[t].pc = "lg_insert"
    /\ entities' = Inserted(entities, th[t].items)
    /\ th' = [th EXCEPT ![t].pc = "lg_subscribe"]
    /\ UNCHANGED << wire, peer, devlog, sent, Timeout, connClosed, err, in,
                    waitMutex, wait, chans, lastMessage, arrived, panicked,
                    limits >>

\* sendTimeout(&api.SubscribeStatesRequest{}, c.Timeout) and the return.
loginSubscribe(t) ==
    /\ th[t].pc = "lg_subscribe"
    /\ LET e == WriteErr(TRUE, Timeout)
       IN  /\ sent' = Written(t, Msg("SubscribeStatesRequest", NoFields), e)
           /\ th' = [th EXCEPT ![t] = Finish([@ EXCEPT !.ret = "idle", !.err = e])]
    /\ UNCHANGED << wire, peer, devlog, Timeout, connClosed, err, in, waitMutex,
                    wait, chans, lastMessage, arrived, entities, panicked,
                    limits >>

(***************************************************************************)
(* SpecLogin: one caller logging in to a device that answers the requests  *)
(* it has been sent: HelloResponse, a ConnectResponse accepting or         *)
(* rejecting the password, then entity descriptions and the end of the     *)
(* list.                                                                   *)
(***************************************************************************)
LoginCallers == {"a"}

Passwords == { <<>>, <<120>> }

\* The entities of the device as it lists them, with Key f[1] and UniqueID
\* f[3]: three sensors, a light, a list of services, for which Login has no
\* map, and a sensor reusing the key of the first.
Descriptions ==
    << Msg("ListEntitiesSensorResponse", <<1, 0, <<65>>, 0>>),
       Msg("ListEntitiesSensorResponse", <<2, 0, <<66>>, 0>>),
       Msg("ListEntitiesSensorResponse", <<3, 0, <<67>>, 0>>),
       Msg("ListEntitiesLightResponse", <<4, 0, <<68>>, 0>>),
       Msg("ListEntitiesServicesResponse", <<5, 0, <<69>>, 0>>),
       Msg("ListEntitiesSensorResponse", <<1, 0, <<70>>, 0>>) >>

\* The kinds of the frames thread t has written, in order.
SentKinds(t) ==
    LET by == SelectSeq(sent, LAMBDA w : w.by = t)
    IN  [i \in 1 .. Len(by) |-> FrameKind(by[i].packed)]

HasSent(t, K) == \E i \in 1 .. Len(SentKinds(t)) : SentKinds(t)[i] = K

\* The device has been sent a message of the schema.
Requested(schema) == \E i \in 1 .. Len(sent) : sent[i].schema = schema

DeviceHasSent(schema) == \E i \in 1 .. Len(devlog) : devlog[i].schema = schema

deviceHello ==
    /\ Requested("HelloRequest")
    /\ ~DeviceHasSent("HelloResponse")
    /\ deviceSend(Msg("HelloResponse", <<1, 3, <<>>, 0>>))

deviceConnect(invalid) ==
    /\ Requested("ConnectRequest")
    /\ ~DeviceHasSent("ConnectResponse")
    /\ deviceSend(Msg("ConnectResponse", <<invalid, 0, <<>>, 0>>))

\* The device describes its i-th entity, skipping any number of them.
deviceDescribe(i) ==
    /\ Requested("ListEntitiesRequest")
    /\ ~DeviceHasSent("ListEntitiesDoneResponse")
    /\ \A k \in i .. Len(Descriptions) :
           \A j \in 1 .. Len(devlog) : devlog[j] # Descriptions[k]
    /\ deviceSend(Descriptions[i])

deviceDone ==
    /\ Requested("ListEntitiesRequest")
    /\ ~DeviceHasSent("ListEntitiesDoneResponse")
    /\ deviceSend(Msg("ListEntitiesDoneResponse", NoFields))

InitLogin ==
    /\ InitClientVars
    /\ Timeout \in {0, 1}
    /\ limits = [frames |-> MaxLoginFrames, ops |-> MaxLoginOps]
    /\ InitCodecVars

\* With a single caller no wait finds an earlier waiter.
NextLogin ==
    /\ ~panicked
    /\ UNCHANGED codecVars
    /\ \/ readerNext
       \/ deviceHello
       \/ \E invalid \in {0, 1} : deviceConnect(invalid)
       \/ \E i \in 1 .. Len(Descriptions) : deviceDescribe(i)
       \/ deviceDone
       \/ \E t \in LoginCallers :
            \/ \E password \in Passwords : startLogin(t, password)
            \/ loginHello(t)
            \/ loginConnect(t)
            \/ listEntitiesNext(t)
            \/ loginInsert(t)
            \/ loginSubscribe(t)
            \/ waitForInstall(t)
            \/ waitRecv(t)
            \/ waitTimeout(t)
            \/ waitDone(t)
            \/ queueNext(t)

SpecLogin == InitLogin /\ [][NextLogin]_vars

LoginReturned(t) == th[t].pc = "idle" /\ th[t].returned = "Login"

\* How many frames of the schema the receive loop has read.
Arrivals(schema) ==
    Cardinality({ i \in 1 .. Len(arrived) : arrived[i].schema = schema })

Count(kinds, K) == Cardinality({ i \in 1 .. Len(kinds) : kinds[i] = K })

\* The descriptions read before the first ListEntitiesDoneResponse.
Described ==
    { i \in 1 .. Len(arrived) :
        /\ IsDescription(arrived[i].schema)
        /\ \A j \in 1 .. i : arrived[j].schema # "ListEntitiesDoneResponse" }

(***************************************************************************)
(* C5.  When the reply to the connect request is a ConnectResponse with    *)
(* InvalidPassword set, Login returns ErrPassword; and once such a         *)
(* response has been read the client has sent no ListEntitiesRequest and   *)
(* no SubscribeStatesRequest and every entity map is empty.                *)
(***************************************************************************)
C5_BadPassword ==
    \A t \in LoginCallers :
        /\ (/\ LoginReturned(t)
            /\ th[t].message.schema = "ConnectResponse"
            /\ th[t].message.f[1] = 1) => th[t].err = ErrPassword
        /\ (\E i \in 1 .. Len(arrived) :
                arrived[i].schema = "ConnectResponse" /\ arrived[i].f[1] = 1) =>
               /\ ~HasSent(t, ListEntitiesRequestType)
               /\ ~HasSent(t, SubscribeStatesRequestType)
               /\ entities = NoEntities

\* Login has returned ErrPassword on the rejecting response it was handed.
C5_Witness ==
    \E t \in LoginCallers :
        /\ LoginReturned(t) /\ th[t].err = ErrPassword
        /\ th[t].message = Msg("ConnectResponse", <<1, 0, <<>>, 0>>)
        /\ SentKinds(t) = << HelloRequestType, ConnectRequestType >>

(***************************************************************************)
(* C6.  The frames of Login go out in the order HelloRequest,              *)
(* ConnectRequest, ListEntitiesRequest, SubscribeStatesRequest, each one   *)
(* only after the reply of the step before it has been read                *)
(* (HelloResponse, ConnectResponse, ListEntitiesDoneResponse), and the     *)
(* SubscribeStatesRequest only with every listed entity in its map.        *)
(***************************************************************************)
C6_LoginOrder ==
    \A t \in LoginCallers :
        LET kinds == SentKinds(t)
        IN  /\ \A i \in 1 .. Len(kinds) :
                   /\ kinds[i] \in { HelloRequestType, ConnectRequestType,
                                     ListEntitiesRequestType, SubscribeStatesRequestType }
                   /\ kinds[i] = ConnectRequestType =>
                          i > 1 /\ kinds[i - 1] = HelloRequestType
                   /\ kinds[i] = ListEntitiesRequestType =>
                          i > 1 /\ kinds[i - 1] = ConnectRequestType
                   /\ kinds[i] = SubscribeStatesRequestType =>
                          i > 1 /\ kinds[i - 1] = ListEntitiesRequestType
            /\ kinds # <<>> => kinds[1] = HelloRequestType
            /\ Count(kinds, ConnectRequestType) <= Arrivals("HelloResponse")
            /\ Count(kinds, ListEntitiesRequestType) <= Arrivals("ConnectResponse")
            /\ Count(kinds, SubscribeStatesRequestType) <= Arrivals("ListEntitiesDoneResponse")
            /\ HasSent(t, SubscribeStatesRequestType) =>
                   \A i \in Described :
                       ListedKind(arrived[i].schema) # "none" =>
                           arrived[i].f[1] \in DOMAIN entities[ListedKind(arrived[i].schema)]

\* All four frames are out and two entities are in their maps.
C6_Witness ==
    \E t \in LoginCallers :
        /\ SentKinds(t) = << HelloRequestType, ConnectRequestType,
                             ListEntitiesRequestType, SubscribeStatesRequestType >>
        /\ Cardinality({ i \in Described : ListedKind(arrived[i].schema) # "none" }) >= 2

(***************************************************************************)
(* C7.  After a successful Login during which the device sent              *)
(* descriptions of pairwise distinct keys and UniqueIDs and then           *)
(* ListEntitiesDoneResponse, Entities() holds for every kind exactly the   *)
(* entities described for that kind, each under its UniqueID; a            *)
(* description Login has no map for adds no entry and no error.            *)
(***************************************************************************)
DistinctDescriptions ==
    \A i, j \in Described :
        i # j => arrived[i].f[1] # arrived[j].f[1] /\ arrived[i].f[3] # arrived[j].f[3]

DescribedAs(kind) == { i \in Described : ListedKind(arrived[i].schema) = kind }

C7_Snapshot ==
    \A t \in LoginCallers :
        (LoginReturned(t) /\ th[t].err = NoErr /\ DistinctDescriptions) =>
            \A kind \in EntityKinds :
                \A g \in Entities(kind) :
                    /\ DOMAIN g = { arrived[i].f[3] : i \in DescribedAs(kind) }
                    /\ \A i \in DescribedAs(kind) :
                           /\ g[arrived[i].f[3]].Key = arrived[i].f[1]
                           /\ g[arrived[i].f[3]].UniqueID = arrived[i].f[3]

\* Three sensors and the services described: three entries under "sensor".
C7_Witness ==
    \E t \in LoginCallers :
        /\ LoginReturned(t) /\ th[t].err = NoErr /\ DistinctDescriptions
        /\ Cardinality(DescribedAs("sensor")) = 3
        /\ Cardinality(DescribedAs("none")) = 1
        /\ \E g \in Entities("sensor") : DOMAIN g = { <<65>>, <<66>>, <<67>> }

(***************************************************************************)
(* Camera.Image and Camera.Stream (camera.go).  The caller keeps in regAt  *)
(* the number of frames read when it sent the capture request.             *)
(***************************************************************************)
CameraRequest == Msg("CameraImageRequest", <<1, 0, <<>>, 0>>)

\* A capture response: Data is f[3], Done is f[4].
Chunk(data, done) == Msg("CameraImageResponse", <<0, 0, data, done>>)

\* sendTimeout(&api.CameraImageRequest{Stream: true}, Timeout) and
\* in := make(chan proto.Message, 1); position pc follows on success.
startCapture(t, op, pc) ==
    /\ CanStart(t)
    /\ th[Worker].pc = "idle"
    /\ LET e == WriteErr(TRUE, Timeout)
           r == Begin(th[t], op)
       IN  /\ sent' = Written(t, CameraRequest, e)
           /\ IF e # NoErr
              THEN /\ th' = [th EXCEPT ![t] = Finish([r EXCEPT !.ret = "idle", !.err = e])]
                   /\ UNCHANGED chans
              ELSE /\ th' = [th EXCEPT ![t] =
                              [r EXCEPT !.pc = pc, !.kind = CameraImageResponseType,
                                        !.ch = NewChan(t), !.nch = r.nch + 1,
                                        !.err = NoErr, !.regAt = lastMessage]]
                   /\ chans' = chans @@ (NewChan(t) :> EmptyChan)
    /\ UNCHANGED << wire, peer, devlog, Timeout, connClosed, err, in, waitMutex,
                    wait, lastMessage, arrived, entities, panicked, limits >>

\* wait[api.CameraImageResponseType] = in under the lock, and the go
\* statement: Image goes on to range over out, Stream returns out.
captureInstall(t) ==
    /\ th[t].pc \in {"img_install", "str_install"}
    /\ waitMutex = "free"
    /\ wait' = [wait EXCEPT ![th[t].kind] = th[t].ch]
    /\ th' = [th EXCEPT
                ![t] = IF th[t].pc = "img_install"
                       THEN [@ EXCEPT !.pc = "img_range"]
                       ELSE [@ EXCEPT !.pc = "idle", !.returned = "Stream"],
                ![Worker] = [@ EXCEPT !.pc = IF th[t].pc = "img_install"
                                             THEN "img_recv" ELSE "str_select",
                                      !.ch = th[t].ch, !.items = <<>>,
                                      !.kind = th[t].kind,
                                      !.message = NilMessage]]
    /\ UNCHANGED << wire, peer, devlog, sent, Timeout, connClosed, err, in,
                    waitMutex, chans, lastMessage, arrived, entities, panicked,
                    limits >>

\* for message := range in, in the goroutine of Image: the loop ends on a
\* closed channel, a message that is no CameraImageResponse is skipped.
imageRecv ==
    /\ th[Worker].pc = "img_recv"
    /\ Readable(th[Worker].ch)
    /\ chans' = AfterRecv(th[Worker].ch)
    /\ th' = [th EXCEPT ![Worker] =
                IF chans[th[Worker].ch].buf = <<>>
                THEN [@ EXCEPT !.pc = "idle", !.ch = NoChan]
                ELSE IF Received(th[Worker].ch).message.schema = "CameraImageResponse"
                THEN [@ EXCEPT !.pc = "img_send",
                               !.message = Received(th[Worker].ch).message]
                ELSE @]
    /\ UNCHANGED << wire, peer, devlog, sent, Timeout, connClosed, err, in,
                    waitMutex, wait, lastMessage, arrived, entities, panicked,
                    limits >>

\* out <- message.Data, received by buffer.Write(chunk) of Image; on Done
\* close(out), which ends the range of Image.
imageSend ==
    /\ th[Worker].pc = "img_send"
    /\ \E t \in Callers :
        /\ th[t].pc = "img_range" /\ th[t].ch = th[Worker].ch
        /\ th' = [th EXCEPT
                    ![t] = [@ EXCEPT !.items = @ \o th[Worker].message.f[3],
                                     !.pc = IF th[Worker].message.f[4] = 1
                                            THEN "img_delete" ELSE @],
                    ![Worker] = IF th[Worker].message.f[4] = 1
                                THEN [@ EXCEPT !.pc = "idle", !.ch = NoChan,
                                               !.message = NilMessage]
                                ELSE [@ EXCEPT !.pc = "img_recv",
                                               !.message = NilMessage]]
    /\ UNCHANGED << wire, peer, devlog, sent, Timeout, connClosed, err, in,
                    waitMutex, wait, chans, lastMessage, arrived, entities,
                    panicked, limits >>

\* delete(wait, api.CameraImageResponseType) under the lock; Image returns
\* the image decoded from the buffer.
imageDelete(t) ==
    /\ th[t].pc = "img_delete"
    /\ waitMutex = "free"
    /\ wait' = Deleted(th[t].kind)
    /\ th' = [th EXCEPT ![t] = Finish([@ EXCEPT !.ret = "idle"])]
    /\ UNCHANGED << wire, peer, devlog, sent, Timeout, connClosed, err, in,
                    waitMutex, chans, lastMessage, arrived, entities, panicked,
                    limits >>

\* case message := <-in of Stream: message.(*api.CameraImageResponse) panics
\* on the nil message of a closed or cancelled channel; the data is
\* appended to the buffer, complete once the frame is marked Done.
streamRecv ==
    /\ th[Worker].pc = "str_select"
    /\ Readable(th[Worker].ch)
    /\ IF Received(th[Worker].ch).message.schema # "CameraImageResponse"
       THEN /\ panicked' = TRUE
            /\ UNCHANGED << chans, th >>
       ELSE /\ chans' = AfterRecv(th[Worker].ch)
            /\ th' = [th EXCEPT ![Worker] =
                        [@ EXCEPT !.items = @ \o Received(th[Worker].ch).message.f[3],
                                  !.pc = IF Received(th[Worker].ch).message.f[4] = 1
                                         THEN "str_emit" ELSE @]]
            /\ UNCHANGED panicked
    /\ UNCHANGED << wire, peer, devlog, sent, Timeout, connClosed, err, in,
                    waitMutex, wait, lastMessage, arrived, entities,
                    limits >>

\* out <- buffer, received by the consumer of the stream, which keeps the
\* frames in items; buffer = new(bytes.Buffer).
streamEmit ==
    /\ th[Worker].pc = "str_emit"
    /\ \E t \in Callers :
        /\ th[t].returned = "Stream" /\ th[t].ch = th[Worker].ch
        /\ th' = [th EXCEPT ![t].items = Append(@, th[Worker].items),
                            ![Worker] = [@ EXCEPT !.pc = "str_select", !.items = <<>>]]
    /\ UNCHANGED << wire, peer, devlog, sent, Timeout, connClosed, err, in,
                    waitMutex, wait, chans, lastMessage, arrived, entities,
                    panicked, limits >>

\* The capture requests the ticker of Stream has sent.
Ticks == Cardinality({ i \in 1 .. Len(sent) : sent[i].by = Worker })

\* A ticker whose failed send leaves the loop running.
streamTickForever ==
    /\ th[Worker].pc = "str_select"
    /\ Ticks < MaxTicks \/ WriteErr(TRUE, Timeout) # NoErr
    /\ sent' = Written(Worker, CameraRequest, WriteErr(TRUE, Timeout))
    /\ th' = [th EXCEPT ![Worker].err = WriteErr(TRUE, Timeout)]
    /\ UNCHANGED << wire, peer, devlog, Timeout, connClosed, err, in, waitMutex,
                    wait, chans, lastMessage, arrived, entities, panicked,
                    limits >>

\* case <-ticker.C: the request is sent again; a failed send closes out and
\* ends the goroutine.  Only the sends that succeed count against MaxTicks.
streamTick ==
    /\ th[Worker].pc = "str_select"
    /\ Ticks < MaxTicks \/ WriteErr(TRUE, Timeout) # NoErr
    /\ LET e == WriteErr(TRUE, Timeout)
       IN  /\ sent' = Written(Worker, CameraRequest, e)
           /\ th' = [th EXCEPT ![Worker] =
                       IF e # NoErr THEN [@ EXCEPT !.pc = "idle", !.err = e]
                       ELSE @]
    /\ UNCHANGED << wire, peer, devlog, Timeout, connClosed, err, in, waitMutex,
                    wait, chans, lastMessage, arrived, entities, panicked,
                    limits >>

(***************************************************************************)
(* SpecCamera: one caller capturing an image or opening a stream from a    *)
(* device that answers a capture request with chunks of data.              *)
(***************************************************************************)
CameraCallers == {"a"}

ChunkData == { <<65, 65>>, <<66, 66>> }

deviceChunk(data, done) ==
    /\ \E i \in 1 .. Len(sent) : sent[i].schema = "CameraImageRequest"
    /\ deviceSend(Chunk(data, done))

InitCamera ==
    /\ InitClientVars
    /\ Timeout = 1
    /\ limits = [frames |-> MaxCameraFrames, ops |-> MaxCameraOps]
    /\ InitCodecVars

NextCamera ==
    /\ ~panicked
    /\ UNCHANGED codecVars
    /\ \/ readerNext
       \/ \E data \in ChunkData, done \in {0, 1} : deviceChunk(data, done)
       \/ deviceClose
       \/ imageRecv
       \/ imageSend
       \/ streamRecv
       \/ streamEmit
       \/ streamTick
       \/ \E t \in CameraCallers :
            \/ startCapture(t, "Image", "img_install")
            \/ startCapture(t, "Stream", "str_install")
            \/ captureInstall(t)
            \/ imageDelete(t)

SpecCamera == InitCamera /\ [][NextCamera]_vars

\* The data of the capture responses read after the n-th frame, cut after
\* each response marked Done: the complete frames, in order.
RECURSIVE FramesFrom(_, _)
FramesFrom(n, acc) ==
    IF n > Len(arrived) THEN <<>>
    ELSE IF arrived[n].schema # "CameraImageResponse" THEN FramesFrom(n + 1, acc)
    ELSE IF arrived[n].f[4] = 1
    THEN << acc \o arrived[n].f[3] >> \o FramesFrom(n + 1, <<>>)
    ELSE FramesFrom(n + 1, acc \o arrived[n].f[3])

(***************************************************************************)
(* C11.  The bytes Camera.Image returns, and each frame Camera.Stream      *)
(* emits, are the data of every capture response read since the capture    *)
(* request (for Stream: since the previous response marked Done) up to the *)
(* first response marked Done, concatenated in the order read; and when    *)
(* Image has returned no waiter for the capture responses is installed.    *)
(***************************************************************************)
C11_Reassembly ==
    \A t \in CameraCallers :
        /\ (th[t].pc = "idle" /\ th[t].returned = "Image" /\ th[t].err = NoErr) =>
               /\ FramesFrom(th[t].regAt + 1, <<>>) # <<>>
               /\ th[t].items = FramesFrom(th[t].regAt + 1, <<>>)[1]
               /\ wait[CameraImageResponseType] = NoChan
        /\ th[t].returned = "Stream" =>
               /\ Len(th[t].items) <= Len(FramesFrom(th[t].regAt + 1, <<>>))
               /\ \A i \in 1 .. Len(th[t].items) :
                      th[t].items[i] = FramesFrom(th[t].regAt + 1, <<>>)[i]

(***************************************************************************)
(* SpecEntity: the entity maps under handleInternal.  Login has listed one *)
(* entity of each kind under key 1; the application registers callbacks;   *)
(* state messages drawn from StateMessages are dispatched one at a time.   *)
(* last keeps the message dispatched and the maps before it.               *)
(***************************************************************************)
MaxUpdates == 2

ListedItems ==
    << Msg("ListEntitiesBinarySensorResponse", <<1, 0, <<65>>, 0>>),
       Msg("ListEntitiesClimateResponse", <<1, 0, <<66>>, 0>>),
       Msg("ListEntitiesCoverResponse", <<1, 0, <<67>>, 0>>),
       Msg("ListEntitiesFanResponse", <<1, 0, <<68>>, 0>>),
       Msg("ListEntitiesLightResponse", <<1, 0, <<69>>, 0>>),
       Msg("ListEntitiesSensorResponse", <<1, 0, <<70>>, 0>>),
       Msg("ListEntitiesSwitchResponse", <<1, 0, <<71>>, 0>>),
       Msg("ListEntitiesTextSensorResponse", <<1, 0, <<72>>, 0>>) >>

\* Values of a sensor: 21.5 and 21.5000001 among them.
SensorValues == {0, 10, 11, 215000000, 215000001}

StateMessages ==
    [schema : {"LightStateResponse"}, Key : {1}, State : BOOLEAN,
     Brightness : {0, 20}, Red : {0, 5, 20}, Green : {0}, Blue : {0},
     White : {0}, ColorTemperature : {0, 20}, Effect : {<<>>, <<82>>}]
    \cup [schema : {"SensorStateResponse"}, Key : {1, 9}, State : SensorValues,
          MissingState : BOOLEAN]
    \cup [schema : {"SwitchStateResponse"}, Key : {1, 9}, State : {0, 1}]
    \cup [schema : {"BinarySensorStateResponse", "ClimateStateResponse",
                    "CoverStateResponse", "FanStateResponse",
                    "TextSensorStateResponse"}, Key : {1}, State : {1}]

NoDispatch == [op |-> "none", n |-> 0, state |-> NilMessage, before |-> NoEntities]

InitEntity ==
    /\ InitClientVars
    /\ Timeout = 1
    /\ limits = [frames |-> 0, ops |-> MaxUpdates]
    /\ stream = <<>>
    /\ frames = <<>>
    /\ nwritten = 0
    /\ last = NoDispatch

\* The loop of Login over the items listEntities returned.
entityLogin ==
    /\ entities = NoEntities
    /\ entities' = Inserted(entities, ListedItems)
    /\ UNCHANGED last

\* The application sets the callbacks of the light, the sensor and the
\* switch.
entityRegister ==
    /\ entities # NoEntities
    /\ entities["light"][1].Handle = {}
    /\ entities' = [entities EXCEPT !["light"][1].Handle = Handlers,
                                    !["sensor"][1].Handle = {"HandleState"},
                                    !["switches"][1].Handle = {"HandleState"}]
    /\ UNCHANGED last

\* handleInternal(state) in the receive loop.
entityDispatch(state) ==
    /\ entities # NoEntities
    /\ last.n < limits.ops
    /\ entities' = Dispatched(entities, state)
    /\ last' = [op |-> "dispatch", n |-> last.n + 1, state |-> state,
                before |-> entities]

NextEntity ==
    /\ UNCHANGED << wire, peer, devlog, sent, Timeout, connClosed, err, in,
                    waitMutex, wait, chans, lastMessage, arrived, th, panicked,
                    limits, stream, frames, nwritten >>
    /\ \/ entityLogin
       \/ entityRegister
       \/ \E state \in StateMessages : entityDispatch(state)

SpecEntity == InitEntity /\ [][NextEntity]_vars

\* The map the specification files a state message under.
StateKind(state) ==
    CASE state.schema = "BinarySensorStateResponse" -> "binarySensor"
      [] state.schema = "ClimateStateResponse" -> "climate"
      [] state.schema = "CoverStateResponse" -> "cover"
      [] state.schema = "FanStateResponse" -> "fan"
      [] state.schema = "LightStateResponse" -> "light"
      [] state.schema = "SensorStateResponse" -> "sensor"
      [] state.schema = "SwitchStateResponse" -> "switches"
      [] state.schema = "TextSensorStateResponse" -> "textSensor"
      [] OTHER -> "none"

\* The last step dispatched a state message of the kind to the entity the
\* kind's map holds under the key of the message.
Pushed(kind) ==
    /\ last.op = "dispatch"
    /\ StateKind(last.state) = kind
    /\ last.state.Key \in DOMAIN last.before[kind]

Old(kind) == last.before[kind][last.state.Key]

Now(kind) == entities[kind][last.state.Key]

\* The callbacks the last dispatch invoked on the entity, by name.
Invoked(kind) ==
    [i \in 1 .. (Len(Now(kind).Called) - Len(Old(kind).Called)) |->
        Now(kind).Called[Len(Old(kind).Called) + i][1]]

Times(kind, handler) ==
    Cardinality({ i \in DOMAIN Invoked(kind) : Invoked(kind)[i] = handler })

(***************************************************************************)
(* C12.  For a sensor with a registered change callback, a push update     *)
(* that is not marked missing and whose value is within the tolerance 1e-6 *)
(* of the sensor's state does not invoke the callback, one whose value     *)
(* differs by more invokes it once; either way the state ends at the new   *)
(* value.                                                                  *)
(***************************************************************************)
C12_Tolerance ==
    (/\ Pushed("sensor")
     /\ "HandleState" \in Old("sensor").Handle
     /\ ~last.state.MissingState) =>
        LET d == IF Old("sensor").State >= last.state.State
                 THEN Old("sensor").State - last.state.State
                 ELSE last.state.State - Old("sensor").State
        IN  /\ Times("sensor", "HandleState") = (IF d <= 10 THEN 0 ELSE 1)
            /\ Len(Invoked("sensor")) = Times("sensor", "HandleState")
            /\ Now("sensor").State = last.state.State

\* 21.5 has been reported with a callback and 21.5000001 follows without.
C12_Witness ==
    /\ Pushed("sensor")
    /\ ~last.state.MissingState
    /\ Old("sensor").State = 215000000
    /\ last.state.State = 215000001
    /\ Now("sensor").State = 215000001
    /\ Now("sensor").Called = << <<"HandleState", 215000000>> >>

(***************************************************************************)
(* C13.  When a sensor or a light with registered callbacks has had no     *)
(* valid update (StateIsValid is false), the first valid push update       *)
(* invokes each registered callback, whatever value it carries.            *)
(***************************************************************************)
C13_FirstUpdate ==
    \A kind \in {"sensor", "light"} :
        (/\ Pushed(kind)
         /\ ~Old(kind).StateIsValid
         /\ kind = "sensor" => ~last.state.MissingState) =>
            \A handler \in Old(kind).Handle : Times(kind, handler) >= 1

\* The distance of two floating values.
Distance(a, b) == IF a >= b THEN a - b ELSE b - a

\* The callbacks of the fields of a light that the last message changed.
LightChanged ==
    LET s == Old("light").State
        m == last.state
    IN  (IF s.On # m.State THEN {"HandleState"} ELSE {})
        \cup (IF Distance(s.Brightness, m.Brightness) > 10
              THEN {"HandleBrightness"} ELSE {})
        \cup (IF \/ Distance(s.Red, m.Red) > 10 \/ Distance(s.Green, m.Green) > 10
                 \/ Distance(s.Blue, m.Blue) > 10 \/ Distance(s.White, m.White) > 10
              THEN {"HandleColor"} ELSE {})
        \cup (IF Distance(s.ColorTemperature, m.ColorTemperature) > 10
              THEN {"HandleColorTemperature"} ELSE {})
        \cup (IF s.Effect # m.Effect THEN {"HandleEffect"} ELSE {})

(***************************************************************************)
(* C14.  For a light, a sensor or a switch that has its callbacks          *)
(* registered and has had a valid update, one push update invokes exactly  *)
(* once the callback of each field whose value changed and invokes no      *)
(* callback of a field whose value did not change.                         *)
(***************************************************************************)
C14_PerField ==
    /\ (/\ Pushed("light")
        /\ Old("light").StateIsValid
        /\ Old("light").Handle = Handlers) =>
            \A handler \in Handlers :
                Times("light", handler) = (IF handler \in LightChanged THEN 1 ELSE 0)
    /\ (/\ Pushed("sensor")
        /\ Old("sensor").StateIsValid
        /\ ~last.state.MissingState
        /\ "HandleState" \in Old("sensor").Handle) =>
            Times("sensor", "HandleState") =
                (IF Distance(Old("sensor").State, last.state.State) > 10 THEN 1 ELSE 0)
    /\ (/\ Pushed("switches")
        /\ Old("switches").Updates > 0
        /\ "HandleState" \in Old("switches").Handle) =>
            Times("switches", "HandleState") =
                (IF Old("switches").State # last.state.State THEN 1 ELSE 0)

\* The values a state message carries equal the entity's state.
Carries(kind) ==
    IF kind = "light"
    THEN Now(kind).State =
            [On |-> last.state.State, Brightness |-> last.state.Brightness,
             Red |-> last.state.Red, Green |-> last.state.Green,
             Blue |-> last.state.Blue, White |-> last.state.White,
             ColorTemperature |-> last.state.ColorTemperature,
             Effect |-> last.state.Effect]
    ELSE Now(kind).State = last.state.State

(***************************************************************************)
(* C15.  For each of the eight kinds with a state message (binary sensor,  *)
(* climate, cover, fan, light, sensor, switch, text sensor), a state       *)
(* message whose key is in the kind's map is applied: after the dispatch   *)
(* the entity's state equals the values the message carries.               *)
(***************************************************************************)
C15_Applied ==
    \A kind \in EntityKinds \ {"camera"} : Pushed(kind) => Carries(kind)

(***************************************************************************)
(* C16.  The StateIsValid flag of an entity is false from its creation     *)
(* until a push update is applied to it, true after every push update      *)
(* applied to it, and never false again once it was true.                  *)
(***************************************************************************)
C16_ValidFlag ==
    \A kind \in {"light", "sensor"} :
        \A key \in DOMAIN entities[kind] :
            /\ entities[kind][key].Updates = 0 => ~entities[kind][key].StateIsValid
            /\ entities[kind][key].Updates > 0 => entities[kind][key].StateIsValid
            /\ (last.op = "dispatch" /\ key \in DOMAIN last.before[kind]
                  /\ last.before[kind][key].StateIsValid) =>
                    entities[kind][key].StateIsValid

\* C16 as the code has it: a light is valid exactly when it has had an
\* update; a sensor is invalid before its first update and after an update
\* is valid exactly when that update was not marked missing.
C16_ValidFlagAmended ==
    /\ \A key \in DOMAIN entities["light"] :
           entities["light"][key].StateIsValid = (entities["light"][key].Updates > 0)
    /\ \A key \in DOMAIN entities["sensor"] :
           entities["sensor"][key].Updates = 0 => ~entities["sensor"][key].StateIsValid
    /\ Pushed("sensor") => Now("sensor").StateIsValid = ~last.state.MissingState

\* A sensor with a valid state has had an update marked missing.
C16_Witness ==
    /\ Pushed("sensor")
    /\ Old("sensor").StateIsValid
    /\ last.state.MissingState
    /\ ~Now("sensor").StateIsValid

ServeCallers == {"a"}

ServeKinds == { PingRequestType, GetTimeRequestType, PingResponseType }

ServeMessages ==
    { Msg("PingRequest", NoFields), Msg("GetTimeRequest", NoFields),
      Msg("PingResponse", NoFields) }

InitServe ==
    /\ InitClientVars
    /\ Timeout \in {0, 1}
    /\ limits = [frames |-> MaxServeFrames, ops |-> MaxServeOps]
    /\ InitCodecVars

NextServe ==
    /\ ~panicked
    /\ UNCHANGED codecVars
    /\ \/ readerNext
       \/ \E m \in ServeMessages : deviceSend(m)
       \/ deviceClose
       \/ \E t \in ServeCallers :
            \/ \E K \in ServeKinds : startWaitMessage(t, K)
            \/ startNextMessage(t)
            \/ waitForInstall(t)
            \/ waitRecv(t)
            \/ waitDone(t)
            \/ nextCheck(t)
            \/ nextRecv(t)

SpecServe == InitServe /\ [][NextServe]_vars

\* The frames of the schema read so far, and those the loop has written.
Read(schema) == Cardinality({ i \in 1 .. Len(arrived) : arrived[i].schema = schema })

Replied(schema) ==
    Cardinality({ i \in 1 .. Len(sent) : sent[i].by = Reader /\ sent[i].schema = schema })

\* The messages held by the inbound queue, by a waiter's slot or by a caller.
Handed ==
    { in[i].message : i \in 1 .. Len(in) }
    \cup UNION { { chans[c].buf[i].message : i \in 1 .. Len(chans[c].buf) } :
                 c \in DOMAIN chans }
    \cup { th[t].message : t \in Callers }

C19_DisconnectNotice ==
    /\ [](\A m \in Handed : m.schema # "DisconnectRequest")
    /\ []((Read("DisconnectRequest") > 0 /\ peer = "open" /\ wire = <<>>
             /\ Len(arrived) = Read("DisconnectRequest")) => err = NoErr)
    /\ (Read("DisconnectRequest") > 0) ~> (th[Reader].pc = "stopped" /\ connClosed)

(***************************************************************************)
(* Client.Logs.  The caller keeps in regAt the number of frames read when  *)
(* it sent the request, in id the number read when its waiter was          *)
(* installed, and in items the entries its consumer has received from the  *)
(* channel Logs returned.                                                  *)
(***************************************************************************)
\* sendTimeout(&api.SubscribeLogsRequest{Level: level}, c.Timeout) and
\* in := make(chan proto.Message, 1).
startLogs(t) ==
    /\ CanStart(t)
    /\ th[Worker].pc = "idle"
    /\ LET e == WriteErr(TRUE, Timeout)
           r == Begin(th[t], "Logs")
       IN  /\ sent' = Written(t, Msg("SubscribeLogsRequest", NoFields), e)
           /\ IF e # NoErr
              THEN /\ th' = [th EXCEPT ![t] = Finish([r EXCEPT !.ret = "idle", !.err = e])]
                   /\ UNCHANGED chans
              ELSE /\ th' = [th EXCEPT ![t] =
                              [r EXCEPT !.pc = "log_install",
                                        !.kind = SubscribeLogsResponseType,
                                        !.ch = NewChan(t), !.nch = r.nch + 1,
                                        !.err = NoErr, !.regAt = lastMessage]]
                   /\ chans' = chans @@ (NewChan(t) :> EmptyChan)
    /\ UNCHANGED << wire, peer, devlog, Timeout, connClosed, err, in, waitMutex,
                    wait, lastMessage, arrived, entities, panicked, limits >>

\* c.wait[api.SubscribeLogsResponseType] = in under the lock, the go
\* statement and return out, nil.
logsInstall(t) ==
    /\ th[t].pc = "log_install"
    /\ waitMutex = "free"
    /\ wait' = [wait EXCEPT ![th[t].kind] = th[t].ch]
    /\ th' = [th EXCEPT
                ![t] = [@ EXCEPT !.pc = "idle", !.returned = "Logs",
                                 !.id = lastMessage],
                ![Worker] = [@ EXCEPT !.pc = "log_recv", !.ch = th[t].ch,
                                      !.kind = th[t].kind,
                                      !.message = NilMessage]]
    /\ UNCHANGED << wire, peer, devlog, sent, Timeout, connClosed, err, in,
                    waitMutex, chans, lastMessage, arrived, entities, panicked,
                    limits >>

\* for entry := range in: on a closed channel the loop ends and the deferred
\* close(out) runs; entry.(*api.SubscribeLogsResponse) panics on a nil
\* message.
logsRecv ==
    /\ th[Worker].pc = "log_recv"
    /\ Readable(th[Worker].ch)
    /\ IF chans[th[Worker].ch].buf = <<>>
       THEN /\ th' = [th EXCEPT ![Worker].pc = "log_closed"]
            /\ UNCHANGED << chans, panicked >>
       ELSE IF Received(th[Worker].ch).message.schema # "SubscribeLogsResponse"
       THEN /\ panicked' = TRUE
            /\ UNCHANGED << chans, th >>
       ELSE /\ chans' = AfterRecv(th[Worker].ch)
            /\ th' = [th EXCEPT ![Worker] =
                        [@ EXCEPT !.pc = "log_send",
                                  !.message = Received(th[Worker].ch).message]]
            /\ UNCHANGED panicked
    /\ UNCHANGED << wire, peer, devlog, sent, Timeout, connClosed, err, in,
                    waitMutex, wait, lastMessage, arrived, entities, limits >>

\* out <- LogEntry{...}, received by the consumer ranging over out.
logsSend ==
    /\ th[Worker].pc = "log_send"
    /\ \E t \in Callers :
        /\ th[t].returned = "Logs" /\ th[t].ch = th[Worker].ch
        /\ th' = [th EXCEPT ![t].items = Append(@, th[Worker].message),
                            ![Worker] = [@ EXCEPT !.pc = "log_recv",
                                                  !.message = NilMessage]]
    /\ UNCHANGED << wire, peer, devlog, sent, Timeout, connClosed, err, in,
                    waitMutex, wait, chans, lastMessage, arrived, entities,
                    panicked, limits >>

(***************************************************************************)
(* SpecLogs: one caller subscribing to the logs of a device that sends log *)
(* entries and may close its side.  The goroutines of the client are       *)
(* scheduled fairly; nothing obliges the device to send.                   *)
(***************************************************************************)
LogsCallers == {"a"}

\* Log entries of two levels, Level being f[1].
LogEntries ==
    { Msg("SubscribeLogsResponse", <<1, 0, <<>>, 0>>),
      Msg("SubscribeLogsResponse", <<2, 0, <<>>, 0>>) }

deviceLog(entry) ==
    /\ \E i \in 1 .. Len(sent) : sent[i].schema = "SubscribeLogsRequest"
    /\ deviceSend(entry)

InitLogs ==
    /\ InitClientVars
    /\ Timeout = 1
    /\ limits = [frames |-> MaxLogsFrames, ops |-> MaxLogsOps]
    /\ InitCodecVars

NextLogs ==
    /\ ~panicked
    /\ UNCHANGED codecVars
    /\ \/ readerNext
       \/ \E entry \in LogEntries : deviceLog(entry)
       \/ deviceGarbage
       \/ deviceClose
       \/ logsRecv
       \/ logsSend
       \/ \E t \in LogsCallers :
            \/ startLogs(t)
            \/ logsInstall(t)

\* A step of the goroutines of the client.
LogsStep ==
    /\ ~panicked
    /\ UNCHANGED codecVars
    /\ \/ logsRecv
       \/ logsSend
       \/ \E t \in LogsCallers : logsInstall(t)
       \/ readerNext

SpecLogs == InitLogs /\ [][NextLogs]_vars /\ WF_vars(LogsStep)

\* The log entries read after the n-th frame.
EntriesFrom(n) ==
    SelectSeq(SubSeq(arrived, n + 1, Len(arrived)),
              LAMBDA m : m.schema = "SubscribeLogsResponse")

\* Logs() has returned a channel to caller t.
Subscribed(t) == th[t].returned = "Logs" /\ th[t].err = NoErr

\* The consumer of the channel Logs() returned has received the log entries
\* read after the subscription in order and without a gap, from the frame
\* the loop held when the waiter was installed, or from the next, on.
LogsInOrder ==
    \A t \in LogsCallers :
        Subscribed(t) =>
            \E k \in {th[t].id - 1, th[t].id} \cap Nat :
                /\ Len(th[t].items) <= Len(EntriesFrom(k))
                /\ \A i \in 1 .. Len(th[t].items) :
                      th[t].items[i] = EntriesFrom(k)[i]

\* close(out) has run.
LogsClosed == th[Worker].pc = "log_closed"

(***************************************************************************)
(* C20.  The channel Logs() returns ends when the connection closes: once  *)
(* the receive loop has stopped, by an error or by Close, the channel is   *)
(* eventually closed, so that a consumer ranging over the log entries is   *)
(* not left blocked forever.                                               *)
(***************************************************************************)
C20_LogsEnd ==
    ((\E t \in LogsCallers : Subscribed(t)) /\ th[Reader].pc = "stopped")
        ~> LogsClosed

(***************************************************************************)
(* SpecQueue: a device sending ping responses nobody waits for, and one    *)
(* caller taking the next message from the inbound queue.                  *)
(***************************************************************************)
QueueCallers == {"a"}

InitQueue ==
    /\ InitClientVars
    /\ Timeout = 1
    /\ limits = [frames |-> MaxQueueFrames, ops |-> MaxQueueOps]
    /\ InitCodecVars

NextQueue ==
    /\ ~panicked
    /\ UNCHANGED codecVars
    /\ \/ readerRead
       \/ readerLookup
       \/ readerDeliverQueue
       \/ deviceSend(Msg("PingResponse", NoFields))
       \/ \E t \in QueueCallers :
            \/ startNextMessage(t)
            \/ nextCheck(t)
            \/ nextRecv(t)

SpecQueue == InitQueue /\ [][NextQueue]_vars

\* The frames the loop has not handed to a caller: those of the queue, then
\* the one the loop holds, by the number of their arrival.
Unhanded ==
    [i \in 1 .. Len(in) |-> in[i].id]
    \o (IF th[Reader].pc \in {"lookup", "deliver"} THEN << th[Reader].id >> ELSE <<>>)

(***************************************************************************)
(* C21.  The inbound queue never holds more than 16 messages.  With 16 in  *)
(* the queue the loop stays in the hand-off of the next unclaimed message  *)
(* and reads no further frame; no message is dropped: the queue and the    *)
(* hand-off hold, in arrival order and without a gap, every frame read     *)
(* after the last one a caller took.                                       *)
(***************************************************************************)
C21_BoundedQueue ==
    /\ Len(in) <= 16
    /\ \A i \in 1 .. Len(Unhanded) :
          Unhanded[i] = lastMessage - Len(Unhanded) + i
    /\ \A t \in QueueCallers :
          (th[t].pc = "idle" /\ th[t].returned = "nextMessage") =>
              /\ th[t].message = Msg("PingResponse", NoFields)
              /\ th[t].id = lastMessage - Len(Unhanded)
    /\ lastMessage = Len(arrived)

\* The queue is full, the loop is in the hand-off of the 17th frame and the
\* 18th is on the wire.
C21_Witness ==
    /\ Len(in) = 16
    /\ th[Reader].pc = "deliver"
    /\ th[Reader].id = 17
    /\ wire # <<>>

(***************************************************************************)
(* SpecOrder: a device sending requests, ping responses and log entries in *)
(* any order; caller a subscribes to the logs, caller b takes the next     *)
(* message from the inbound queue.                                         *)
(***************************************************************************)
OrderMessages ==
    { Msg("PingRequest", NoFields), Msg("GetTimeRequest", NoFields),
      Msg("PingResponse", NoFields) } \cup LogEntries

InitOrder ==
    /\ InitClientVars
    /\ Timeout = 1
    /\ limits = [frames |-> MaxOrderFrames, ops |-> MaxOrderOps]
    /\ InitCodecVars

NextOrder ==
    /\ ~panicked
    /\ UNCHANGED codecVars
    /\ \/ readerNext
       \/ \E m \in OrderMessages : deviceSend(m)
       \/ logsRecv
       \/ logsSend
       \/ startLogs("a")
       \/ logsInstall("a")
       \/ startNextMessage("b")
       \/ nextCheck("b")
       \/ nextRecv("b")

SpecOrder == InitOrder /\ [][NextOrder]_vars

\* The replies the requests read so far call for, in the order of the
\* requests.
RECURSIVE RepliesTo(_)
RepliesTo(msgs) ==
    IF msgs = <<>> THEN <<>>
    ELSE (IF Head(msgs).schema = "PingRequest" THEN <<"PingResponse">>
          ELSE IF Head(msgs).schema = "GetTimeRequest" THEN <<"GetTimeResponse">>
          ELSE <<>>) \o RepliesTo(Tail(msgs))

\* The schemas of the frames the receive loop has written, in order.
ReplySchemas ==
    LET by == SelectSeq(sent, LAMBDA w : w.by = Reader)
    IN  [i \in 1 .. Len(by) |-> by[i].schema]

InitDisplace ==
    /\ InitClientVars
    /\ Timeout = 1
    /\ limits = [frames |-> MaxDisplaceFrames, ops |-> MaxDisplaceOps]
    /\ InitCodecVars

NextDisplace ==
    /\ ~panicked
    /\ UNCHANGED codecVars
    /\ \/ readerNext
       \/ \E entry \in LogEntries : deviceSend(entry)
       \/ logsRecv
       \/ logsSend
       \/ startLogs("a")
       \/ logsInstall("a")
       \/ startWaitMessage("b", SubscribeLogsResponseType)
       \/ startWaitMessageTimeout("b", SubscribeLogsResponseType)
       \/ waitNext("b")

SpecDisplace == InitDisplace /\ [][NextDisplace]_vars

\* Thread t is blocked in the receive from its waiter slot: a caller of
\* waitMessage or waitMessageTimeout, or the goroutine of a subscription or
\* a capture.
Awaiting(t) ==
    th[t].pc \in {"wm_recv", "wmt_select", "log_recv", "img_recv", "str_select"}

(***************************************************************************)
(* C23.  At most one consumer awaits a kind: whoever is blocked on a slot  *)
(* that is not the one the waiter table holds for its kind has been        *)
(* unblocked, its slot holding the cancellation or being closed; so two    *)
(* consumers are never left awaiting the same kind, whether the later one  *)
(* was installed by waitFor or by Logs.                                    *)
(***************************************************************************)
C23_OneWaiter ==
    /\ \A t \in Threads :
          (Awaiting(t) /\ wait[th[t].kind] # th[t].ch /\ waitMutex = "free") =>
              \/ chans[th[t].ch].closed
              \/ chans[th[t].ch].buf # <<>>
    /\ \A t, u \in Threads :
          (t # u /\ Awaiting(t) /\ Awaiting(u) /\ th[t].kind = th[u].kind) =>
              \/ chans[th[t].ch].closed \/ chans[th[t].ch].buf # <<>>
              \/ chans[th[u].ch].closed \/ chans[th[u].ch].buf # <<>>
              \/ waitMutex # "free"

(***************************************************************************)
(* The command setters of Light and Switch, and Client.send.               *)
(***************************************************************************)
\* Light.commandRequest().
lightCommandRequest(entity) ==
    [Key |-> entity.Key,
     State |-> entity.State.On,
     HasBrightness |-> entity.Capabilities.Brightness,
     Brightness |-> entity.State.Brightness,
     HasRgb |-> entity.Capabilities.RGB,
     Red |-> entity.State.Red,
     Green |-> entity.State.Green,
     Blue |-> entity.State.Blue,
     HasWhite |-> entity.Capabilities.WhiteValue,
     White |-> entity.State.White,
     HasColorTemperature |-> entity.Capabilities.ColorTemperature,
     ColorTemperature |-> entity.State.ColorTemperature,
     HasTransitionLength |-> FALSE,
     TransitionLength |-> 0,
     HasFlashLength |-> FALSE,
     FlashLength |-> 0,
     HasEffect |-> FALSE,
     Effect |-> entity.State.Effect]

\* float32(v>>4) / 256.0 of a 16-bit colour component, in units of 1e-7.
Component(v) == (v \div 16) * 39062 + (v \div 16) \div 2

\* The request a setter of Light builds: commandRequest() with the one
\* assignment of the setter.  SetColor takes the components of value.RGBA().
lightRequest(entity, op, value) ==
    CASE op = "SetBrightness" -> [lightCommandRequest(entity) EXCEPT !.Brightness = value]
      [] op = "SetColor" ->
            [lightCommandRequest(entity) EXCEPT !.Red = Component(value[1]),
                                                !.Green = Component(value[2]),
                                                !.Blue = Component(value[3])]
      [] op = "SetWhite" -> [lightCommandRequest(entity) EXCEPT !.White = value]
      [] op = "SetEffect" -> [lightCommandRequest(entity) EXCEPT !.Effect = value]
      [] OTHER -> [lightCommandRequest(entity) EXCEPT !.State = value]

\* The frame of a command: Key in f[1], State in f[2], Effect in f[3] and
\* HasEffect in f[4].
lightFrame(request) ==
    Msg("LightCommandRequest",
        << request.Key, IF request.State THEN 1 ELSE 0, request.Effect,
           IF request.HasEffect THEN 1 ELSE 0 >>)

\* The cached state with the value of the setter written into it.
Cached(state, op, value) ==
    CASE op = "SetBrightness" -> [state EXCEPT !.Brightness = value]
      [] op = "SetColor" -> [state EXCEPT !.Red = Component(value[1]),
                                          !.Green = Component(value[2]),
                                          !.Blue = Component(value[3])]
      [] op = "SetWhite" -> [state EXCEPT !.White = value]
      [] op = "SetEffect" -> [state EXCEPT !.Effect = value]
      [] OTHER -> [state EXCEPT !.On = value]

\* The record of a call: the request it built, the entities and the number
\* of frames sent before it, the value given and the error it returned.
Call(op, t, key, request, value, e) ==
    [op |-> op, n |-> last.n + 1, state |-> NilMessage, before |-> entities,
     by |-> t, key |-> key, request |-> request, given |-> <<value>>, err |-> e,
     frames |-> Len(sent)]

\* A setter of the light that writes its value into the cached state too.
lightSetCaching(t, key, op, value) ==
    /\ CanStart(t)
    /\ key \in DOMAIN entities["light"]
    /\ LET request == lightRequest(entities["light"][key], op, value)
           e == WriteErr(TRUE, Timeout)
       IN  /\ sent' = Written(t, lightFrame(request), e)
           /\ th' = [th EXCEPT ![t] = Finish([Begin(@, op) EXCEPT !.ret = "idle",
                                                                !.err = e])]
           /\ last' = Call(op, t, key, request, value, e)
    /\ entities' = [entities EXCEPT !["light"][key].State = Cached(@, op, value)]
    /\ UNCHANGED << wire, peer, devlog, Timeout, connClosed, err, in, waitMutex,
                    wait, chans, lastMessage, arrived, panicked, limits >>

\* Light.SetBrightness, SetColor, SetWhite, SetEffect and SetState on the
\* light of the key: the request built from a copy of the entity, then
\* sendTimeout(request, Timeout).
lightSet(t, key, op, value) ==
    /\ CanStart(t)
    /\ key \in DOMAIN entities["light"]
    /\ LET request == lightRequest(entities["light"][key], op, value)
           e == WriteErr(TRUE, Timeout)
       IN  /\ sent' = Written(t, lightFrame(request), e)
           /\ th' = [th EXCEPT ![t] = Finish([Begin(@, op) EXCEPT !.ret = "idle",
                                                                !.err = e])]
           /\ last' = Call(op, t, key, request, value, e)
    /\ UNCHANGED << wire, peer, devlog, Timeout, connClosed, err, in, waitMutex,
                    wait, chans, lastMessage, arrived, entities, panicked, limits >>

\* Switch.commandRequest().
switchCommandRequest(entity) == [Key |-> entity.Key, State |-> entity.State]

\* Switch.SetState(on).
switchSet(t, key, value) ==
    /\ CanStart(t)
    /\ key \in DOMAIN entities["switches"]
    /\ LET request == [switchCommandRequest(entities["switches"][key])
                          EXCEPT !.State = value]
           e == WriteErr(TRUE, Timeout)
       IN  /\ sent' = Written(t, Msg("SwitchCommandRequest",
                                     <<request.Key, request.State, <<>>, 0>>), e)
           /\ th' = [th EXCEPT ![t] = Finish([Begin(@, "Switch.SetState")
                                                 EXCEPT !.ret = "idle", !.err = e])]
           /\ last' = Call("Switch.SetState", t, key, request, value, e)
    /\ UNCHANGED << wire, peer, devlog, Timeout, connClosed, err, in, waitMutex,
                    wait, chans, lastMessage, arrived, entities, panicked, limits >>

\* c.send(message): api.Marshal, then conn.Write of the frame.
send(t, message) ==
    /\ CanStart(t)
    /\ LET e == IF Marshal(message).err # NoErr THEN Marshal(message).err
                ELSE WriteErr(FALSE, 0)
       IN  /\ sent' = Written(t, message, e)
           /\ th' = [th EXCEPT ![t] = Finish([Begin(@, "send") EXCEPT !.ret = "idle",
                                                                    !.err = e])]
           /\ last' = [Call("send", t, 0, message, message, e)
                          EXCEPT !.state = message]
    /\ UNCHANGED << wire, peer, devlog, Timeout, connClosed, err, in, waitMutex,
                    wait, chans, lastMessage, arrived, entities, panicked, limits >>

(***************************************************************************)
(* SpecCommand: after Login has listed a light and a switch, a caller sets *)
(* them and sends messages while state updates are dispatched.             *)
(***************************************************************************)
CommandCallers == {"a"}

\* The items of the list: a light of every pair of the two capabilities,
\* and a switch.
CommandItems(brightness, rgb) ==
    << Msg("ListEntitiesLightResponse", <<1, brightness, <<69>>, rgb>>),
       Msg("ListEntitiesSwitchResponse", <<1, 0, <<71>>, 0>>) >>

CommandStates ==
    [schema : {"LightStateResponse"}, Key : {1}, State : BOOLEAN,
     Brightness : {0, 20}, Red : {5}, Green : {0}, Blue : {0},
     White : {0}, ColorTemperature : {20}, Effect : {<<>>, <<82>>}]
    \cup [schema : {"SwitchStateResponse"}, Key : {1}, State : {0, 1}]

LightSetters == {"SetBrightness", "SetColor", "SetWhite", "SetEffect", "SetState"}

\* The values a caller passes to a setter.
SetterValues(op) ==
    CASE op = "SetBrightness" -> {0, 5000000}
      [] op = "SetColor" -> { <<65535, 0, 32>>, <<0, 0, 0>> }
      [] op = "SetWhite" -> {0, 10000000}
      [] op = "SetEffect" -> { <<>>, <<82>>, <<83>> }
      [] OTHER -> BOOLEAN

\* A message of a schema the kind table does not list, and one it lists.
SendMessages == { Msg("PingRequest", NoFields), Msg("Unlisted", NoFields) }

InitCommand ==
    /\ InitClientVars
    /\ Timeout \in {0, 1}
    /\ limits = [frames |-> 0, ops |-> MaxCommandOps]
    /\ stream = <<>>
    /\ frames = <<>>
    /\ nwritten = 0
    /\ last = NoDispatch

commandLogin(brightness, rgb) ==
    /\ entities = NoEntities
    /\ entities' = Inserted(entities, CommandItems(brightness, rgb))
    /\ UNCHANGED << wire, peer, devlog, sent, Timeout, connClosed, err, in,
                    waitMutex, wait, chans, lastMessage, arrived, th, panicked,
                    limits, last >>

commandDispatch(state) ==
    /\ entityDispatch(state)
    /\ UNCHANGED << wire, peer, devlog, sent, Timeout, connClosed, err, in,
                    waitMutex, wait, chans, lastMessage, arrived, th, panicked,
                    limits >>

NextCommand ==
    /\ UNCHANGED << stream, frames, nwritten >>
    /\ \/ \E brightness, rgb \in {0, 1} : commandLogin(brightness, rgb)
       \/ \E state \in CommandStates : commandDispatch(state)
       \/ \E t \in CommandCallers, op \in LightSetters :
             \E value \in SetterValues(op) : lightSet(t, 1, op, value)
       \/ \E t \in CommandCallers, value \in {0, 1} : switchSet(t, 1, value)
       \/ \E t \in CommandCallers, message \in SendMessages : send(t, message)

SpecCommand == InitCommand /\ [][NextCommand]_vars

\* The step is a call of a command setter.
SetterStep ==
    /\ last'.n # last.n
    /\ last'.op \in LightSetters \cup {"Switch.SetState"}

\* The one frame a setter writes: the command of the kind, by the caller.
CommandFrame ==
    /\ Len(sent') = Len(sent) + 1
    /\ SubSeq(sent', 1, Len(sent)) = sent
    /\ sent'[Len(sent')].by = last'.by
    /\ sent'[Len(sent')].schema =
           (IF last'.op = "Switch.SetState" THEN "SwitchCommandRequest"
            ELSE "LightCommandRequest")

C26_UnknownSchema ==
    /\ \A i \in DOMAIN sent : FrameKind(sent[i].packed) # UnknownType
    /\ (last.op = "send" /\ last.request.schema \notin Schemas) =>
           /\ last.err # NoErr
           /\ th[last.by].err # NoErr
           /\ Len(sent) = last.frames

\* The last call is a setter of the light that has sent its request; Target
\* is the entity it was called on.
LightSet ==
    /\ last.op \in LightSetters
    /\ last.err = NoErr
    /\ Len(sent) = last.frames + 1
    /\ sent[Len(sent)].packed = Marshal(lightFrame(last.request)).packed

Target == last.before["light"][last.key]

\* The fields of a request a setter assigns.
Assigned(op) ==
    CASE op = "SetBrightness" -> {"Brightness"}
      [] op = "SetColor" -> {"Red", "Green", "Blue"}
      [] op = "SetWhite" -> {"White"}
      [] op = "SetEffect" -> {"Effect"}
      [] OTHER -> {"State"}

\* The value fields of a request as the cached state of the entity has them.
FromCache(entity) ==
    [State |-> entity.State.On, Brightness |-> entity.State.Brightness,
     Red |-> entity.State.Red, Green |-> entity.State.Green,
     Blue |-> entity.State.Blue, White |-> entity.State.White,
     ColorTemperature |-> entity.State.ColorTemperature,
     Effect |-> entity.State.Effect]

(***************************************************************************)
(* C27.  The LightCommandRequest of a Light setter carries the key of the  *)
(* entity, presence flags equal to its capabilities and the cached state   *)
(* in every value field but the one the setter changes, which carries the  *)
(* caller's value and is flagged present: SetEffect(e) sends Effect = e    *)
(* with HasEffect set, SetState(on) sends State = on.                      *)
(***************************************************************************)
C27_LightCommand ==
    LightSet =>
        /\ last.request.Key = Target.Key
        /\ last.request.HasBrightness = Target.Capabilities.Brightness
        /\ last.request.HasRgb = Target.Capabilities.RGB
        /\ last.request.HasWhite = Target.Capabilities.WhiteValue
        /\ last.request.HasColorTemperature = Target.Capabilities.ColorTemperature
        /\ \A field \in DOMAIN FromCache(Target) \ Assigned(last.op) :
               last.request[field] = FromCache(Target)[field]
        /\ last.op = "SetBrightness" => last.request.Brightness = last.given[1]
        /\ last.op = "SetWhite" => last.request.White = last.given[1]
        /\ last.op = "SetState" => last.request.State = last.given[1]
        /\ last.op = "SetEffect" =>
               /\ last.request.Effect = last.given[1]
               /\ last.request.HasEffect

(***************************************************************************)
(* SpecStream: one caller opens a stream and keeps reading it, the ticker  *)
(* fires, and the device sends chunks, garbage, or closes its side.  The   *)
(* goroutine of the stream, its consumer and the ticker are scheduled      *)
(* fairly.                                                                 *)
(***************************************************************************)
StreamCallers == {"a"}

StreamChunks == { Chunk(<<65>>, 0), Chunk(<<66>>, 1) }

InitStream ==
    /\ InitClientVars
    /\ Timeout = 1
    /\ limits = [frames |-> MaxStreamFrames, ops |-> MaxStreamOps]
    /\ InitCodecVars

NextStream ==
    /\ ~panicked
    /\ UNCHANGED codecVars
    /\ \/ streamRecv
       \/ streamEmit
       \/ streamTick
       \/ \E t \in StreamCallers :
            \/ startCapture(t, "Stream", "str_install")
            \/ captureInstall(t)
       \/ \E chunk \in StreamChunks : deviceSend(chunk)
       \/ deviceGarbage
       \/ deviceClose
       \/ readerNext

\* A step of the goroutine of Stream: a receive from its slot, a frame
\* taken by the consumer, or the ticker.
StreamStep ==
    /\ ~panicked
    /\ UNCHANGED codecVars
    /\ \/ streamRecv
       \/ streamEmit
       \/ streamTick

SpecStream == InitStream /\ [][NextStream]_vars /\ WF_vars(StreamStep)

\* The goroutine of Stream is in its loop.
Streaming == th[Worker].pc \in {"str_select", "str_emit"}

\* The goroutine of Stream has closed out and returned.
StreamEnded ==
    /\ \E t \in StreamCallers : th[t].returned = "Stream"
    /\ th[Worker].pc = "idle"
    /\ th[Worker].err # NoErr

(***************************************************************************)
(* C25.  The ticker of Camera.Stream sends the capture request again; the  *)
(* loop ends only in a step of the ticker whose send fails, and that step  *)
(* ends the output; once the connection has its terminal error, the output *)
(* of a stream whose consumer keeps reading eventually ends.               *)
(***************************************************************************)
C25_StreamEnds ==
    /\ [][ /\ (Streaming /\ ~Streaming') =>
                 /\ WriteErr(TRUE, Timeout) # NoErr
                 /\ sent' = sent
                 /\ StreamEnded'
           /\ (Streaming /\ Len(sent') > Len(sent) /\ sent'[Len(sent')].by = Worker) =>
                 /\ sent'[Len(sent')].schema = "CameraImageRequest"
                 /\ Streaming' ]_vars
    /\ (Streaming /\ err # NoErr) ~> StreamEnded

\* The stream has ended on a connection closed by the device after a
\* complete frame was handed to the consumer and the ticker had sent a
\* request.
C25_Witness ==
    /\ StreamEnded
    /\ err = "EOF"
    /\ Ticks = 1
    /\ th["a"].items = << <<66>> >>

(***************************************************************************)
(* C28.  waitDone removes the caller's own registration only: a caller     *)
(* blocked awaiting K whose slot has been neither cancelled nor closed     *)
(* still has that slot in the waiter table, whatever the cleanup of a      *)
(* caller it displaced has done, so that the next message of kind K is     *)
(* delivered to it.                                                        *)
(***************************************************************************)
C28_OwnRegistration ==
    \A t \in Callers :
        (/\ Pending(t)
         /\ chans[th[t].ch].buf = <<>>
         /\ ~chans[th[t].ch].closed) =>
            wait[th[t].kind] = th[t].ch

(***************************************************************************)
(* C29.  The receive loop never sends a message on a waiter slot that a    *)
(* displacement has closed: no interleaving of its lookup and its delivery *)
(* with a concurrent waitFor for the same kind makes it panic.             *)
(***************************************************************************)
C29_NoClosedDelivery ==
    ~(/\ panicked
      /\ th[Reader].pc = "deliver"
      /\ th[Reader].other # NoChan
      /\ chans[th[Reader].other].closed)

(***************************************************************************)
(* SpecLock: the callers and the receive loop of Spec, scheduled fairly: a *)
(* step of a wait or of the receive loop that stays possible is taken.     *)
(***************************************************************************)
LockStep ==
    /\ ~panicked
    /\ UNCHANGED codecVars
    /\ \/ \E t \in Callers : waitNext(t)
       \/ readerNext

SpecLock == Init /\ [][Next]_vars /\ WF_vars(LockStep)

(***************************************************************************)
(* C30.  waitFor never blocks for ever while it holds the waiter-table     *)
(* lock: a caller that has taken the lock eventually releases it, also     *)
(* when the slot it displaces holds a message its owner, timed out, will   *)
(* not consume.                                                            *)
(***************************************************************************)
C30_LockReleased ==
    \A t \in Callers : (waitMutex = t) ~> (waitMutex # t)

(***************************************************************************)
(* SpecExchange: callers query the device information, with or without a   *)
(* timeout, and the device answers each request once.                      *)
(***************************************************************************)
\* The number of frames of the schema in a sequence of frames.
Frames(seq, schema) ==
    Cardinality({ i \in 1 .. Len(seq) : seq[i].schema = schema })

\* The device answers a DeviceInfoRequest it has not answered yet.
deviceInfoReply ==
    /\ Frames(devlog, "DeviceInfoResponse") < Frames(sent, "DeviceInfoRequest")
    /\ deviceSend(Msg("DeviceInfoResponse", <<1, 0, <<>>, 0>>))

InitExchange ==
    /\ InitClientVars
    /\ Timeout \in {0, 1}
    /\ limits = [frames |-> MaxExchangeFrames, ops |-> MaxExchangeOps]
    /\ InitCodecVars

NextExchange ==
    /\ ~panicked
    /\ UNCHANGED codecVars
    /\ \/ readerNext
       \/ deviceInfoReply
       \/ \E t \in Callers :
            \/ startDeviceInfo(t)
            \/ deviceInfoReturn(t)
            \/ waitNext(t)

SpecExchange == InitExchange /\ [][NextExchange]_vars

(***************************************************************************)
(* C31.  The reply the device sends to the request of an exchange reaches  *)
(* the requesting caller, also when the receive loop reads it before the   *)
(* caller has installed its waiter: with one exchange under way, its reply *)
(* is never put in the inbound queue.                                      *)
(***************************************************************************)
C31_ReplyToCaller ==
    (th["b"].nops = 0) =>
        \A i \in 1 .. Len(in) : in[i].message.schema # "DeviceInfoResponse"

(***************************************************************************)
(* C33.  An exchange that returns without an error returns a message of    *)
(* the expected kind, never the nil message, so that DeviceInfo does not    *)
(* panic on its reply, even when its wait was displaced by a concurrent    *)
(* wait for the same kind.                                                 *)
(***************************************************************************)
C33_ReplyKind ==
    \A t \in Callers :
        (th[t].pc = "di_ret" /\ th[t].err = NoErr) =>
            th[t].message.schema = "DeviceInfoResponse"

(***************************************************************************)
(* C32.  No decoded message is lost: a message the receive loop has put    *)
(* in a waiter slot is there for a caller or consumer still blocked in     *)
(* the receive from that slot, also when the waiter timed out or           *)
(* completed between the lookup of the receive loop and its delivery.      *)
(***************************************************************************)
C32_NoneLost ==
    \A c \in DOMAIN chans :
        \A i \in 1 .. Len(chans[c].buf) :
            chans[c].buf[i].message # NilMessage =>
                \E t \in Threads : th[t].ch = c /\ Awaiting(t)

(***************************************************************************)
(* C35.  The receive loop never blocks awaiting a reply that only the      *)
(* receive loop could deliver: handling a disconnect request, it does not  *)
(* wait for a DisconnectResponse, and no frame stays unread on the         *)
(* connection while it is in such a wait.                                  *)
(***************************************************************************)
C35_LoopNeverWaits ==
    /\ th[Reader].pc \notin {"wm_recv", "wmt_select"}
    /\ ~(Pending(Reader) /\ wire # <<>>)

\* The arguments the last dispatch passed to the handler of the entity.
Arguments(kind, handler) ==
    { Now(kind).Called[i][2] :
        i \in { j \in Len(Old(kind).Called) + 1 .. Len(Now(kind).Called) :
                  Now(kind).Called[j][1] = handler } }

(***************************************************************************)
(* C36.  When an update changes the on/off state of a light, HandleState   *)
(* is invoked with the new value the update carries: false when the light  *)
(* turned off, true when it turned on.                                     *)
(***************************************************************************)
C36_NewOnOff ==
    (/\ Pushed("light")
     /\ "HandleState" \in Old("light").Handle
     /\ last.state.State # Old("light").State.On) =>
        Arguments("light", "HandleState") = {last.state.State}

(***************************************************************************)
(* C37.  With Timeout zero no step of Login is bounded by a deadline that  *)
(* has already expired: a Login that returns on a connection the device    *)
(* keeps open returns no error but that of a rejected password.            *)
(***************************************************************************)
C37_ZeroTimeout ==
    \A t \in LoginCallers :
        (Timeout = 0 /\ LoginReturned(t) /\ peer = "open") =>
            th[t].err \in {NoErr, ErrPassword}

(***************************************************************************)
(* SpecPush: one caller logs in to a device that lists no entity; once     *)
(* the states are subscribed the device pushes state updates and sends a   *)
(* ping request, and no caller receives from the inbound queue.  The       *)
(* receive loop and the caller are scheduled fairly.                       *)
(***************************************************************************)
PushCallers == {"a"}

\* The device pushes a state update after the subscription.
devicePush ==
    /\ Requested("SubscribeStatesRequest")
    /\ deviceSend(Msg("SensorStateResponse", NoFields))

\* The device pings the client once after the subscription.
devicePing ==
    /\ Requested("SubscribeStatesRequest")
    /\ ~DeviceHasSent("PingRequest")
    /\ deviceSend(Msg("PingRequest", NoFields))

InitPush ==
    /\ InitClientVars
    /\ Timeout = 1
    /\ limits = [frames |-> MaxPushFrames, ops |-> MaxPushOps]
    /\ InitCodecVars

\* A step of Login in thread t.
loginNext(t) ==
    \/ loginHello(t)
    \/ loginConnect(t)
    \/ listEntitiesNext(t)
    \/ loginInsert(t)
    \/ loginSubscribe(t)
    \/ waitForInstall(t)
    \/ waitRecv(t)
    \/ waitTimeout(t)
    \/ waitDone(t)
    \/ queueNext(t)

NextPush ==
    /\ ~panicked
    /\ UNCHANGED codecVars
    /\ \/ \E t \in PushCallers : startLogin(t, <<>>)
       \/ \E t \in PushCallers : loginNext(t)
       \/ deviceHello
       \/ deviceConnect(0)
       \/ deviceDone
       \/ devicePush
       \/ devicePing
       \/ readerNext

\* The receive loop can read: readerRead is enabled.
ReadReady ==
    /\ ~panicked
    /\ th[Reader].pc = "select"
    /\ \/ StopSenderParked
       \/ ~(ReadMessage(wire).err \in {"EOF", "unexpected EOF"} /\ peer = "open")

\* A step of the caller, or of the receive loop after its read.
PushStep ==
    /\ ~panicked
    /\ UNCHANGED codecVars
    /\ \/ \E t \in PushCallers : loginNext(t)
       \/ readerLookup
       \/ readerDeliverWaiter
       \/ readerDeliverQueue

\* The read of the receive loop is weakly fair: its enabling condition is
\* written out as ReadReady.
ReadFair == []<>(~ReadReady) \/ []<><<readerRead>>_vars

SpecPush == InitPush /\ [][NextPush]_vars /\ WF_vars(PushStep) /\ ReadFair

(***************************************************************************)
(* C34.  After a successful Login, with no caller receiving the next       *)
(* message, the receive loop keeps processing frames however many state    *)
(* updates arrive: a ping request the device sends is eventually answered. *)
(***************************************************************************)
C34_LoopKeepsUp ==
    (/\ \E t \in PushCallers : LoginReturned(t) /\ th[t].err = NoErr
     /\ DeviceHasSent("PingRequest"))
        ~> (Frames(sent, "PingResponse") > 0)
====
